---- MODULE Spec2Model ----
(***************************************************************************)
(* A model of the heuristic engine of the code refactoring advisor:        *)
(* pattern deduplication (agents/pattern_recognizer.py), the per-file      *)
(* complexity estimate (agents/structural_analyzer.py), the smell          *)
(* pre-screening detectors (agents/smell_detector.py) and the bounded      *)
(* fan-out over files (core/code_analysis.py).                             *)
(*                                                                         *)
(* Every component has its own variables and its own specification; a      *)
(* specification leaves the variables of the other components idle.        *)
(* Floating-point quantities are kept as integers: confidences and         *)
(* complexity scores in tenths.                                            *)
(***************************************************************************)
EXTENDS Integers, Sequences, FiniteSets, TLC

VARIABLES
    files_content,  \* identify_patterns: the scanned files, in dictionary order
    llm_results,    \* what llm_service.identify_design_patterns returns
    patterns,       \* deduplicate_patterns: the argument (list of DesignPattern)
    dedup_pc,       \* "call" before the call, "done" after it returned
    dedup_result,   \* deduplicate_patterns: the returned list
    cx_files,       \* calculate_complexity_metrics: files_content, two files
    cx_pc,          \* number of files the loop over files_content has handled
    complexities,   \* calculate_complexity_metrics: the list of scores so far
    smell_detectors,  \* SmellDetector.smell_detectors: the detector registry
    file_content,     \* the file handed to the smell detector: its lines
    file_ext,         \* its extension, lower case, without the dot
    smell_pc,         \* "call" before a call of the detector, "done" after it
    smell_op,         \* the method called last: "_pre_screen_smells" or a detector
    smell_calls,      \* the number of calls made on this SmellDetector
    potential_smells, \* what _pre_screen_smells returned last
    results,          \* what a detector that was called directly returned last
    seen,             \* every call made so far: method, arguments, returned value
    semaphore,        \* _analyze_files: the value of the asyncio.Semaphore
    task_pc,          \* _analyze_files: where the task of each file stands
    file_analyses,    \* _analyze_files: what the task of each file returned
    gathered,         \* _analyze_files: "pending", then "returned" or "raised"
    repositories_db,  \* api/dependencies.py: repository id -> record
    analyses_db,      \* api/dependencies.py: analysis id -> record
    reports_db,       \* api/dependencies.py: the ids of the stored reports
    repo_pc,          \* where the process_repository task of each id stands
    analysis_pc,      \* where the process_analysis task of each id stands
    deleted,          \* the ids that delete_repository removed, each with the
                      \* place of its task at that time
    suggestions,      \* generate_refactoring_guide: the list it is given
    guide_pc,         \* "idle", "called" or "done"
    guide             \* guide["steps"] of what it returned

dedup_vars == <<files_content, llm_results, patterns, dedup_pc, dedup_result>>
cx_vars == <<cx_files, cx_pc, complexities>>

smell_vars == <<smell_detectors, file_content, file_ext, smell_pc, smell_op,
                smell_calls, potential_smells, results, seen>>

fanout_vars == <<semaphore, task_pc, file_analyses, gathered>>

api_vars == <<repositories_db, analyses_db, reports_db, repo_pc, analysis_pc, deleted>>

guide_vars == <<suggestions, guide_pc, guide>>

vars == <<dedup_vars, cx_vars, smell_vars, fanout_vars, api_vars, guide_vars>>

\* A component that a specification does not run.
DedupIdle ==
    /\ files_content = <<>>
    /\ llm_results = <<>>
    /\ patterns = <<>>
    /\ dedup_pc = "idle"
    /\ dedup_result = <<>>
CxIdle == cx_files = <<>> /\ cx_pc = 0 /\ complexities = <<>>
SmellIdle ==
    /\ smell_detectors = <<>>
    /\ file_content = <<>>
    /\ file_ext = ""
    /\ smell_pc = "idle"
    /\ smell_op = ""
    /\ smell_calls = 0
    /\ potential_smells = <<>>
    /\ results = <<>>
    /\ seen = {}
FanoutIdle ==
    semaphore = 0 /\ task_pc = <<>> /\ file_analyses = <<>> /\ gathered = "idle"
ApiIdle ==
    /\ repositories_db = <<>>
    /\ analyses_db = <<>>
    /\ reports_db = {}
    /\ repo_pc = <<>>
    /\ analysis_pc = <<>>
    /\ deleted = {}
GuideIdle ==
    suggestions = <<>> /\ guide_pc = "idle" /\ guide = <<>>

Max(a, b) == IF a >= b THEN a ELSE b
Min(a, b) == IF a <= b THEN a ELSE b

Range(s) == {s[i] : i \in 1..Len(s)}

\* All sequences over S of length 0..n.
SeqsUpTo(S, n) == UNION {[1..k -> S] : k \in 0..n}

(***************************************************************************)
(* agents/pattern_recognizer.py: deduplicate_patterns                      *)
(***************************************************************************)

\* Longest input list of deduplicate_patterns that is explored.
MaxPatterns == 3

\* Pattern names: two differ in case only.
PatternNames == {"Singleton", "singleton"}
\* Confidences in tenths.  DesignPattern.confidence is an unconstrained float
\* (models/analysis.py) and llm_pattern_detection passes on whatever number
\* the LLM result holds, so a value below 0 is an input as well.
Confidences == {-2, 6, 8}

\* models/analysis.py: class DesignPattern.  files is a list in the code; its
\* order never matters to the merge, so it is kept as the set of its elements.
DesignPattern(n, f, c, d) == [name |-> n, files |-> f, confidence |-> c, description |-> d]

DesignPatterns ==
    {DesignPattern(n, f, c, d) : n \in PatternNames, f \in {{"A"}, {"B"}},
                                 c \in Confidences, d \in {"ab", "xyz"}}
        \cup {DesignPattern("singleton", {"A", "B"}, 6, d) : d \in {"", "cd"}}

\* The dictionary key of a pattern: pattern_groups[pattern.name].
GroupKeyFolded(name) == IF name = "Singleton" THEN "singleton" ELSE name
GroupKey(name) == name

\* The keys of pattern_groups in insertion order (a Python dict keeps it).
RECURSIVE GroupKeys(_, _)
GroupKeys(ps, keys) ==
    IF ps = <<>> THEN <<>>
    ELSE LET k == GroupKey(Head(ps).name)
         IN  IF k \in keys THEN GroupKeys(Tail(ps), keys)
             ELSE <<k>> \o GroupKeys(Tail(ps), keys \cup {k})

\* pattern_groups[name]: the patterns of one key, in input order.
PatternGroup(ps, key) == SelectSeq(ps, LAMBDA p : GroupKey(p.name) = key)

\* The loop over one group: all_files.update(pattern.files).
RECURSIVE AllFiles(_)
AllFiles(group) ==
    IF group = <<>> THEN {} ELSE Head(group).files \cup AllFiles(Tail(group))

\* The loop over one group: max_confidence = max(max_confidence, pattern.confidence),
\* from max_confidence = 0.0.
RECURSIVE MaxConfidenceFrom(_, _)
MaxConfidenceFrom(acc, group) ==
    IF group = <<>> THEN acc
    ELSE MaxConfidenceFrom(Max(acc, Head(group).confidence), Tail(group))

MaxConfidence(group) == MaxConfidenceFrom(0, group)

\* The loop over one group: the distinct non-empty descriptions, first seen first.
RECURSIVE GroupDescriptions(_, _)
GroupDescriptions(group, acc) ==
    IF group = <<>> THEN acc
    ELSE LET d == Head(group).description
         IN  IF d # "" /\ d \notin Range(acc)
             THEN GroupDescriptions(Tail(group), Append(acc, d))
             ELSE GroupDescriptions(Tail(group), acc)

\* max(descriptions, key=len): the first element of greatest length.
RECURSIVE MaxByLen(_, _)
MaxByLen(best, ds) ==
    IF ds = <<>> THEN best
    ELSE MaxByLen(IF Len(Head(ds)) > Len(best) THEN Head(ds) ELSE best, Tail(ds))

\* A merge that lets the description seen last win among equally long ones.
MergedDescriptionLastSeen(group) ==
    LET ds == GroupDescriptions(group, <<>>)
    IN  IF ds = <<>> THEN "No description provided" ELSE MaxByLen(ds[Len(ds)], ds)
\* description=max(descriptions, key=len) if descriptions else "No description provided"
MergedDescription(group) ==
    LET ds == GroupDescriptions(group, <<>>)
    IN  IF ds = <<>> THEN "No description provided" ELSE MaxByLen(Head(ds), Tail(ds))

\* One iteration of "for name, group in pattern_groups.items()".
MergeGroup(key, group) ==
    IF Len(group) = 1 THEN group[1]
    ELSE DesignPattern(key, AllFiles(group), MaxConfidence(group), MergedDescription(group))

deduplicate_patterns(ps) ==
    IF ps = <<>> THEN <<>>
    ELSE LET keys == GroupKeys(ps, {})
         IN  [i \in 1..Len(keys) |-> MergeGroup(keys[i], PatternGroup(ps, keys[i]))]

DedupInit ==
    /\ CxIdle
    /\ SmellIdle
    /\ FanoutIdle
    /\ ApiIdle
    /\ GuideIdle
    /\ files_content = <<>>
    /\ llm_results = <<>>
    /\ patterns \in SeqsUpTo(DesignPatterns, MaxPatterns)
    /\ dedup_pc = "call"
    /\ dedup_result = <<>>

\* The call deduplicate_patterns(all_patterns) of identify_patterns.
Deduplicate ==
    /\ dedup_pc = "call"
    /\ dedup_result' = deduplicate_patterns(patterns)
    /\ dedup_pc' = "done"
    /\ UNCHANGED <<files_content, llm_results, patterns, cx_vars, smell_vars, fanout_vars, api_vars, guide_vars>>

SpecDedup == DedupInit /\ [][Deduplicate]_vars

\* The input records of one name, and the output records of one name.
InputsNamed(n) == {i \in 1..Len(patterns) : patterns[i].name = n}
OutputsNamed(n) == {i \in 1..Len(dedup_result) : dedup_result[i].name = n}

SetMax(S) == CHOOSE m \in S : \A x \in S : x <= m

\* C1: for every name that occurs in two or more input records, the output
\* holds one record of that name, its files are the union of the files of the
\* input records of that name and its confidence is their maximum confidence.
C1_MergeUnionMax ==
    dedup_pc = "done" =>
        \A n \in PatternNames :
            Cardinality(InputsNamed(n)) >= 2 =>
                /\ Cardinality(OutputsNamed(n)) = 1
                /\ \A o \in OutputsNamed(n) :
                      /\ dedup_result[o].files = UNION {patterns[i].files : i \in InputsNamed(n)}
                      /\ dedup_result[o].confidence =
                             SetMax({patterns[i].confidence : i \in InputsNamed(n)})

\* C2: the output holds exactly one record per distinct input name and no
\* other name, a record whose name occurs once is returned unchanged, and the
\* empty list gives the empty list.
C2_ExactNameGroups ==
    dedup_pc = "done" =>
        /\ \A n \in PatternNames :
              Cardinality(OutputsNamed(n)) = (IF InputsNamed(n) = {} THEN 0 ELSE 1)
        /\ \A i \in 1..Len(dedup_result) : dedup_result[i].name \in PatternNames
        /\ \A n \in PatternNames :
              Cardinality(InputsNamed(n)) = 1 =>
                  \A i \in InputsNamed(n) : \A o \in OutputsNamed(n) :
                      dedup_result[o] = patterns[i]
        /\ (patterns = <<>> => dedup_result = <<>>)

\* C2 witness: names that differ in case only were kept apart, one of them
\* merged from two records and the other returned as it came.
C2_Witness ==
    /\ dedup_pc = "done"
    /\ Cardinality(InputsNamed("Singleton")) = 2
    /\ Cardinality(InputsNamed("singleton")) = 1
    /\ Len(dedup_result) = 2

(***************************************************************************)
(* agents/structural_analyzer.py: estimate_file_complexity                 *)
(***************************************************************************)

\* The lines a file of the complexity model is made of: the text after the
\* leading whitespace, and the width of the leading whitespace.
LineClasses ==
    << [text |-> "",                  indent |-> 0],
       [text |-> "# note",            indent |-> 0],
       [text |-> "x = 1",             indent |-> 0],
       [text |-> "if x:",             indent |-> 16],
       [text |-> "x = 1",             indent |-> 24],
       [text |-> "def f():",          indent |-> 0],
       [text |-> "function f() {",    indent |-> 0],
       [text |-> "public void f() {", indent |-> 4] >>

\* How many lines of each class a file may hold (content is the lines of all
\* classes in any order: the estimate reads nothing that depends on the order).
ClassCounts ==
    << {0, 1, 100, 300, 400}, {0, 3}, {0, 9}, {0, 2, 60}, {0, 1},
       {0, 11, 21}, {0, 21}, {0, 11} >>

\* The numbers of blank lines by which the second file is longer than the first.
AddedLines == {1, 50, 200}

Extensions == {".py", ".js", ".java", ".rb"}

\* line.strip() is empty / starts with one of '#', '//', '/*', '*'.
IsBlankText(t) == t = ""
IsCommentText(t) == t \in {"# note", "// note", "/* note", "* note"}

\* line.strip().startswith(kw) for one kw of control_keywords.
StartsWithControlKeyword(t) == t \in {"if x:", "if (x) {", "for x in y:", "while x:"}

\* The substrings of function_indicators that a text contains.
IndicatorsIn(t) ==
    CASE t = "def f():"          -> {"def "}
      [] t = "function f() {"    -> {"function ", ") {"}
      [] t = "public void f() {" -> {"public ", "void ", ") {"}
      [] t = "if (x) {"          -> {") {"}
      [] OTHER                   -> {}

\* function_indicators.get(extension, [') {'])
FunctionIndicators(ext) ==
    CASE ext = ".py" -> {"def ", "async def "}
      [] ext \in {".js", ".ts"} -> {"function ", "const ", "=>"}
      [] ext \in {".java", ".cs"} -> {"public ", "private ", "protected ", "void ", "static "}
      [] OTHER -> {") {"}

\* A file: its extension and the number of lines of each class.  A content
\* without any line is the empty string, which split('\n') turns into one
\* empty line.
NormalCounts(n) == IF \A i \in DOMAIN n : n[i] = 0 THEN [n EXCEPT ![1] = 1] ELSE n

SumOver(n, weight(_)) ==
    LET RECURSIVE go(_)
        go(i) == IF i = 0 THEN 0 ELSE n[i] * weight(i) + go(i - 1)
    IN  go(Len(n))

\* len(lines)
LineCount(f) == SumOver(f.n, LAMBDA i : 1)

IsCodeClass(i) == ~IsBlankText(LineClasses[i].text) /\ ~IsCommentText(LineClasses[i].text)

\* Factor 1: line count.
LineCountBonusSwapped(line_count) ==
    IF line_count > 500 THEN 20
    ELSE IF line_count > 300 THEN 30
    ELSE IF line_count > 100 THEN 10
    ELSE 0
LineCountBonusNegative(line_count) ==
    IF line_count > 500 THEN -30
    ELSE IF line_count > 300 THEN -20
    ELSE IF line_count > 100 THEN -10
    ELSE 0
LineCountBonus(line_count) ==
    IF line_count > 500 THEN 30
    ELSE IF line_count > 300 THEN 20
    ELSE IF line_count > 100 THEN 10
    ELSE 0

\* Factor 2: nesting level, from the indentation of the lines that are neither
\* blank nor comments.
IndentBonus(f) ==
    LET count == SumOver(f.n, LAMBDA i : IF IsCodeClass(i) THEN 1 ELSE 0)
        total == SumOver(f.n, LAMBDA i : IF IsCodeClass(i) THEN LineClasses[i].indent ELSE 0)
        used == {i \in DOMAIN f.n : IsCodeClass(i) /\ f.n[i] > 0}
        max_indent == IF used = {} THEN 0
                      ELSE CHOOSE m \in {LineClasses[i].indent : i \in used} :
                               \A i \in used : LineClasses[i].indent <= m
    IN  IF count = 0 THEN 0
        ELSE (IF max_indent > 20 THEN 20 ELSE IF max_indent > 12 THEN 10 ELSE 0)
             + (IF total > 8 * count THEN 10 ELSE 0)     \* avg_indent > 8

\* A bonus that is added whatever the extension is.
KeywordDensityBonusEveryExtension(f) ==
    LET keyword_count ==
            SumOver(f.n, LAMBDA i : IF StartsWithControlKeyword(LineClasses[i].text)
                                    THEN 1 ELSE 0)
    IN  IF keyword_count * 10 > Max(1, LineCount(f)) THEN 10 ELSE 0
\* Factor 3: control keywords, for '.py', '.js' and '.ts' only.
KeywordDensityBonus(f) ==
    IF f.ext \in {".py", ".js", ".ts"}
    THEN LET keyword_count ==
                 SumOver(f.n, LAMBDA i : IF StartsWithControlKeyword(LineClasses[i].text)
                                         THEN 1 ELSE 0)
         IN  \* keyword_count / max(1, line_count) > 0.1
             IF keyword_count * 10 > Max(1, LineCount(f)) THEN 10 ELSE 0
    ELSE 0

\* Factor 4: the lines that contain a function indicator of the extension.
FunctionCountBonus(f) ==
    LET function_count ==
            SumOver(f.n, LAMBDA i :
                IF IndicatorsIn(LineClasses[i].text) \cap FunctionIndicators(f.ext) # {}
                THEN 1 ELSE 0)
    IN  IF function_count > 20 THEN 20 ELSE IF function_count > 10 THEN 10 ELSE 0

\* The score in tenths: base 1.0, the four factors, capped at 10.
estimate_file_complexity(f) ==
    Min(100, 10 + LineCountBonus(LineCount(f)) + IndentBonus(f)
                + KeywordDensityBonus(f) + FunctionCountBonus(f))

RECURSIVE CountVectors(_)
CountVectors(k) ==
    IF k = 0 THEN {<<>>}
    ELSE {Append(v, c) : v \in CountVectors(k - 1), c \in ClassCounts[k]}

SourceFiles ==
    {[ext |-> e, n |-> NormalCounts(n)] :
        e \in Extensions, n \in CountVectors(Len(ClassCounts))}

\* The file with k more blank lines: every other input of the score is the same.
Lengthened(f, k) == [f EXCEPT !.n[1] = @ + k]

CxInit ==
    /\ DedupIdle
    /\ SmellIdle
    /\ FanoutIdle
    /\ ApiIdle
    /\ GuideIdle
    /\ cx_files \in {<<f, Lengthened(f, k)>> : f \in SourceFiles, k \in AddedLines}
    /\ cx_pc = 0
    /\ complexities = <<>>

\* One iteration of the loop of calculate_complexity_metrics:
\* complexities.append(await estimate_file_complexity(file_path, content)).
EstimateNextFile ==
    /\ cx_pc < Len(cx_files)
    /\ complexities' = Append(complexities, estimate_file_complexity(cx_files[cx_pc + 1]))
    /\ cx_pc' = cx_pc + 1
    /\ UNCHANGED <<cx_files, dedup_vars, smell_vars, fanout_vars, api_vars, guide_vars>>

SpecComplexity == CxInit /\ [][EstimateNextFile]_vars

\* C3: every score is within [0, 10] (0..100 tenths).
C3_ScoreWithinRange ==
    \A i \in 1..Len(complexities) : complexities[i] >= 0 /\ complexities[i] <= 100

\* C3 witness: a file of more than 500 lines with every bonus at its highest
\* was scored.
C3_Witness ==
    /\ cx_pc >= 1
    /\ LineCount(cx_files[1]) > 500
    /\ IndentBonus(cx_files[1]) = 30
    /\ FunctionCountBonus(cx_files[1]) = 20
    /\ KeywordDensityBonus(cx_files[1]) = 10
    /\ complexities[1] = 100

\* C4 as stated: of two files of the same extension that differ in line count
\* only, the longer never scores lower.
C4_MonotonicInLineCount ==
    cx_pc = 2 => complexities[2] >= complexities[1]

\* C4 amended: the longer file never scores lower unless the added lines take
\* the control-keyword density of a .py/.js/.ts file from above 0.1 to 0.1 or
\* below, and then it scores lower by 1.0 at most.
C4_MonotonicUnlessDensityDrops ==
    cx_pc = 2 =>
        /\ (KeywordDensityBonus(cx_files[2]) >= KeywordDensityBonus(cx_files[1])
                => complexities[2] >= complexities[1])
        /\ (cx_files[1].ext \notin {".py", ".js", ".ts"} => complexities[2] >= complexities[1])
        /\ complexities[2] >= complexities[1] - 10

\* C4 witness: the added lines moved the file into a higher line-count
\* bracket, the density bonus stayed, and the score rose.
C4_Witness ==
    /\ cx_pc = 2
    /\ KeywordDensityBonus(cx_files[1]) = 10
    /\ KeywordDensityBonus(cx_files[2]) = 10
    /\ LineCountBonus(LineCount(cx_files[2])) > LineCountBonus(LineCount(cx_files[1]))
    /\ complexities[2] > complexities[1]

(***************************************************************************)
(* agents/smell_detector.py: SmellDetector                                 *)
(*                                                                         *)
(* A file content is the sequence of its lines (content.split('\n')).  A   *)
(* line is its kind, the width of its leading whitespace and, for a        *)
(* declaration or a condition, the tokens between its parentheses.  The    *)
(* kinds stand for these texts (without the leading whitespace; a brace or *)
(* quote character of a text is named in BraceChars):                      *)
(*   blank     (empty or whitespace only)                                  *)
(*   hash      # note                                                      *)
(*   include   #include <project/module/long_header.h>                     *)
(*   slash     // note                                                     *)
(*   code      x = 1                                                       *)
(*   long_a    result_value = first_operand + second_operand               *)
(*   long_b    another_value = third_operand - fourth_operand              *)
(*   def       def f(<toks>):                                              *)
(*   function  function f(<toks>) {                                        *)
(*   method    public void f(<toks>) {                                     *)
(*   close     }                                                           *)
(*   quote     s = "{"                                                     *)
(*   openquote s = "a              (the string is not closed)              *)
(*   class     class C:                                                    *)
(*   jclass    class C {                                                   *)
(*   if        if <toks>:                                                  *)
(*   return    return x                                                    *)
(*   break     break                                                       *)
(*   jsbreak   break;                                                      *)
(*   else      else:                                                       *)
(* A regular expression of the code is modelled by the lines of these      *)
(* kinds that it matches.                                                  *)
(***************************************************************************)

Line(k, i, t) == [kind |-> k, indent |-> i, toks |-> t]

\* n copies of one line.
Run(line, n) == [i \in 1..n |-> line]

\* The number of elements of a sequence that satisfy a test.
CountIn(seq, Test(_)) == Cardinality({i \in 1..Len(seq) : Test(seq[i])})

\* The sequence of the f(i), for the i of lo..hi that satisfy the test, in order.
Collect(lo, hi, Test(_), f(_)) ==
    LET all == [k \in 1..(hi - lo + 1) |-> lo + k - 1]
        sel == SelectSeq(all, Test)
    IN  [k \in 1..Len(sel) |-> f(sel[k])]

\* What a detector returns for one finding: the values that its "lines" and
\* "details" strings are formatted from (the label of "lines", the name of
\* the construct, the numbers).
Result(label, name, nums) == [label |-> label, name |-> name, nums |-> nums]

\* line.strip() == "" / line.strip().startswith('#') / startswith('//')
IsBlank(line) == line.kind = "blank"
StartsWithHash(line) == line.kind \in {"hash", "include"}
StartsWithSlashes(line) == line.kind = "slash"

\* The characters of a line that the brace scans look at, in order.
BraceChars(line) ==
    CASE line.kind \in {"function", "method", "jclass"} -> <<"{">>
      [] line.kind = "close" -> <<"}">>
      [] line.kind = "quote" -> <<"dquote", "{", "dquote">>
      [] line.kind = "openquote" -> <<"dquote">>
      [] OTHER -> <<>>

\* SmellDetector.__init__: the registry, in insertion order.
SmellIds ==
    <<"long_method", "large_class", "long_parameter_list", "duplicate_code",
      "complex_conditional", "dead_code", "comment_overuse">>

SmellRegistry ==
    [id \in Range(SmellIds) |->
        CASE id = "long_method" ->
                 [description |-> "Method that has grown too large", severity |-> "medium"]
          [] id = "large_class" ->
                 [description |-> "Class that has taken on too many responsibilities",
                  severity |-> "medium"]
          [] id = "long_parameter_list" ->
                 [description |-> "Method with excessive parameters", severity |-> "medium"]
          [] id = "duplicate_code" ->
                 [description |-> "Similar code structure repeated", severity |-> "high"]
          [] id = "complex_conditional" ->
                 [description |-> "Overly complex conditional expression",
                  severity |-> "medium"]
          [] id = "dead_code" ->
                 [description |-> "Code that is never executed", severity |-> "low"]
          [] id = "comment_overuse" ->
                 [description |-> "Excessive comments that may mask bad code",
                  severity |-> "low"]]

(***************************************************************************)
(* _detect_long_method                                                     *)
(***************************************************************************)

\* The long-method thresholds: line_count > 20 (Python), > 15 (JS/TS), > 20
\* (Java, C, C++, C#).
PyLongMethodThreshold == 20
JsLongMethodThreshold == 15
CLongMethodThreshold == 20

\* The loop over lines_after[1:] of the Python branch, from line i on.
\* indentation = 0 stands for None: it is only ever set to a width > 0.
RECURSIVE PyCountBody(_, _, _, _)
PyCountBody(content, i, indentation, line_count) ==
    IF i > Len(content) THEN line_count
    ELSE LET line == content[i]
         IN  IF IsBlank(line) \/ StartsWithHash(line)
             THEN PyCountBody(content, i + 1, indentation, line_count)
             ELSE IF indentation = 0
             THEN IF line.indent > 0
                  THEN PyCountBody(content, i + 1, line.indent, line_count + 1)
                  ELSE line_count
             ELSE IF line.indent >= indentation
                  THEN PyCountBody(content, i + 1, indentation, line_count + 1)
                  ELSE line_count

\* A count that takes the def line twice.
PyMethodLineCountDefTwice(content, i) == PyCountBody(content, i + 1, 0, 2)
\* line_count of the method that r"def\s+(\w+)\s*\(.*?\):" matches on line i:
\* 1 for the line of the def, and the body lines.
PyMethodLineCount(content, i) == PyCountBody(content, i + 1, 0, 1)

\* The brace scan over content[start:], start on line i: the line the brace
\* level returns to zero on, or 0 when it never does.  quotes are the
\* characters that open and close a string.
RECURSIVE ScanChars(_, _, _, _, _)
ScanChars(chars, quotes, brace_level, in_string, string_char) ==
    \* <<closed, brace_level, in_string, string_char>> after the line's characters
    IF chars = <<>> THEN <<FALSE, brace_level, in_string, string_char>>
    ELSE LET char == Head(chars)
         IN  IF char \in quotes
             THEN IF ~in_string
                  THEN ScanChars(Tail(chars), quotes, brace_level, TRUE, char)
                  ELSE IF string_char = char
                  THEN ScanChars(Tail(chars), quotes, brace_level, FALSE, string_char)
                  ELSE ScanChars(Tail(chars), quotes, brace_level, in_string, string_char)
             ELSE IF in_string
             THEN ScanChars(Tail(chars), quotes, brace_level, in_string, string_char)
             ELSE IF char = "{"
             THEN ScanChars(Tail(chars), quotes, brace_level + 1, in_string, string_char)
             ELSE IF char = "}"
             THEN IF brace_level - 1 = 0
                  THEN <<TRUE, 0, in_string, string_char>>
                  ELSE ScanChars(Tail(chars), quotes, brace_level - 1, in_string, string_char)
             ELSE ScanChars(Tail(chars), quotes, brace_level, in_string, string_char)

RECURSIVE ScanLines(_, _, _, _, _, _)
ScanLines(content, i, quotes, brace_level, in_string, string_char) ==
    IF i > Len(content) THEN 0
    ELSE LET after == ScanChars(BraceChars(content[i]), quotes, brace_level,
                                in_string, string_char)
         IN  IF after[1] THEN i
             ELSE ScanLines(content, i + 1, quotes, after[2], after[3], after[4])

\* The characters that open and close a string: double quote, single quote
\* and backtick for JS/TS; the Java/C branch toggles in_string on the double
\* quote alone.
JsQuotes == {"dquote", "squote", "backtick"}
CQuotes == {"dquote"}

\* A scan that takes the end of the file for the end of a function that
\* never closes.
ClosingLineOrLastLine(content, i, quotes) ==
    IF ScanLines(content, i, quotes, 0, FALSE, "") = 0 THEN Len(content)
    ELSE ScanLines(content, i, quotes, 0, FALSE, "")
ClosingLine(content, i, quotes) == ScanLines(content, i, quotes, 0, FALSE, "")

\* The lines the declaration patterns match.  The tables hold for a content
\* whose declarations are complete on one line and that does not mix Python
\* declarations with brace-language ones (no ".*?" runs on to a later line).

\* r"def\s+(\w+)\s*\(.*?\):"
PyDefMatches(line) == line.kind = "def"

\* The four JS/TS patterns, by position in the list "patterns": function
\* declarations, function expressions, arrow functions, object methods.
JsPatternMatches(p, line) ==
    CASE p = 1 -> line.kind = "function"
      [] p = 4 -> line.kind \in {"function", "method"}
      [] OTHER -> FALSE

\* r"(?:public|private|protected|static|\s) +[\w\<\>\[\]]+\s+(\w+) *\([^\)]*\) *\{?"
\* matches "public void f(" and, after two whitespace characters (the first
\* may be the newline that ends the line before), "def f(" and "function f(".
TwoBlanksBefore(content, i) ==
    content[i].indent >= 2 \/ (content[i].indent >= 1 /\ i > 1)
CMethodMatches(content, i) ==
    \/ content[i].kind = "method"
    \/ content[i].kind \in {"def", "function"} /\ TwoBlanksBefore(content, i)
\* Whether that match starts with the newline that ends the line before.
CMatchStartsAtNewline(content, i) ==
    content[i].kind \in {"def", "function"} /\ content[i].indent >= 1 /\ i > 1

\* func_content.count('\n') for a match on line i whose brace level returns to
\* zero on line closing (0: never, func_end stays func_start).
SpanNewlines(i, closing) == IF closing = 0 THEN 0 ELSE closing - i

PyLongMethods(content) ==
    Collect(1, Len(content),
            LAMBDA i : PyDefMatches(content[i])
                       /\ PyMethodLineCount(content, i) > PyLongMethodThreshold,
            LAMBDA i : Result("Method", "f", <<PyMethodLineCount(content, i)>>))

JsLineCount(content, i) == SpanNewlines(i, ClosingLine(content, i, JsQuotes))

JsLongMethodsOf(p, content) ==
    Collect(1, Len(content),
            LAMBDA i : JsPatternMatches(p, content[i])
                       /\ JsLineCount(content, i) > JsLongMethodThreshold,
            LAMBDA i : Result("Function", "f", <<JsLineCount(content, i)>>))

CLineCount(content, i) ==
    SpanNewlines(i, ClosingLine(content, i, CQuotes))
        + (IF CMatchStartsAtNewline(content, i) THEN 1 ELSE 0)

CLongMethods(content) ==
    Collect(1, Len(content),
            LAMBDA i : CMethodMatches(content, i)
                       /\ CLineCount(content, i) > CLongMethodThreshold,
            LAMBDA i : Result("Method", "f", <<CLineCount(content, i)>>))

_detect_long_method(content, ext) ==
    IF ext \in {"py"} THEN PyLongMethods(content)
    ELSE IF ext \in {"js", "ts", "jsx", "tsx"}
    THEN JsLongMethodsOf(1, content) \o JsLongMethodsOf(2, content)
             \o JsLongMethodsOf(3, content) \o JsLongMethodsOf(4, content)
    ELSE IF ext \in {"java", "c", "cpp", "cs"} THEN CLongMethods(content)
    ELSE <<>>

(***************************************************************************)
(* _detect_large_class                                                     *)
(***************************************************************************)

\* len(methods) > 10 (Python, Java/C), > 8 (JS/TS)
LargeClassThreshold == 10
JsLargeClassThreshold == 8

\* The matches of the method pattern in content[cls.start():], the class
\* declared on line i: they are counted to the end of the file.
MethodsFrom(content, i, IsMethod(_)) ==
    Cardinality({j \in i..Len(content) : IsMethod(j)})

LargeClasses(content, class_kind, IsMethod(_), threshold) ==
    Collect(1, Len(content),
            LAMBDA i : content[i].kind = class_kind
                       /\ MethodsFrom(content, i, IsMethod) > threshold,
            LAMBDA i : Result("Class", "C", <<MethodsFrom(content, i, IsMethod)>>))

_detect_large_class(content, ext) ==
    IF ext \in {"py"}
    THEN LargeClasses(content, "class", LAMBDA j : content[j].kind = "def",
                      LargeClassThreshold)
    ELSE IF ext \in {"java", "c", "cpp", "cs"}
    THEN LargeClasses(content, "jclass", LAMBDA j : CMethodMatches(content, j),
                      LargeClassThreshold)
    ELSE IF ext \in {"js", "ts"}
    THEN LargeClasses(content, "jclass",
                      LAMBDA j : content[j].kind \in {"function", "method"},
                      JsLargeClassThreshold)
    ELSE <<>>

(***************************************************************************)
(* _detect_long_parameter_list                                             *)
(***************************************************************************)

\* threshold = 4, 5 for Python, 3 for JavaScript/TypeScript
DefaultParamThreshold == 4
PyParamThreshold == 5
JsParamThreshold == 3

\* The text between the parentheses of a declaration is its tokens: a
\* parameter name "a", "=", a default "1", ",".
\* params.count(',')
CountCommas(toks) == CountIn(toks, LAMBDA t : t = ",")

\* len([p for p in params.split(',') if p.strip()]): the pieces between the
\* commas that hold a token.
RECURSIVE NonBlankPieces(_, _)
NonBlankPieces(toks, in_piece) ==
    IF toks = <<>> THEN 0
    ELSE IF Head(toks) = "," THEN NonBlankPieces(Tail(toks), FALSE)
    ELSE (IF in_piece THEN 0 ELSE 1) + NonBlankPieces(Tail(toks), TRUE)

ParamCount(toks) ==
    IF "=" \in Range(toks) THEN NonBlankPieces(toks, FALSE) ELSE 1 + CountCommas(toks)

ParamThreshold(ext) ==
    IF ext \in {"py"} THEN PyParamThreshold
    ELSE IF ext \in {"js", "ts"} THEN JsParamThreshold
    ELSE DefaultParamThreshold

\* The six patterns, by position in the list "patterns".
ParamPatternMatches(p, content, i) ==
    CASE p = 1 -> content[i].kind = "def"
      [] p = 2 -> content[i].kind = "function"
      [] p = 5 -> CMethodMatches(content, i)
      [] p = 6 -> content[i].kind \in {"function", "method"}
      [] OTHER -> FALSE

LongParameterListsOf(p, content, ext) ==
    Collect(1, Len(content),
            LAMBDA i : /\ ParamPatternMatches(p, content, i)
                       /\ content[i].toks # <<>>
                       /\ ParamCount(content[i].toks) > ParamThreshold(ext),
            LAMBDA i : Result("Function", "f", <<ParamCount(content[i].toks)>>))

_detect_long_parameter_list(content, ext) ==
    LongParameterListsOf(1, content, ext) \o LongParameterListsOf(2, content, ext)
        \o LongParameterListsOf(3, content, ext) \o LongParameterListsOf(4, content, ext)
        \o LongParameterListsOf(5, content, ext) \o LongParameterListsOf(6, content, ext)

(***************************************************************************)
(* _detect_duplicate_code                                                  *)
(***************************************************************************)

min_line_length == 30

RECURSIVE SumLen(_)
SumLen(toks) == IF toks = <<>> THEN 0 ELSE Len(Head(toks)) + SumLen(Tail(toks))

\* Parameters are written "a, a=1, a": a space after every comma that is not
\* the last token.  A condition is written with a space between two tokens,
\* but none after "(" or before ")".
ParamsLen(toks) ==
    SumLen(toks) + Cardinality({k \in 1..(Len(toks) - 1) : toks[k] = ","})
ConditionLen(toks) ==
    SumLen(toks) + Cardinality({k \in 1..(Len(toks) - 1) : toks[k] # "(" /\ toks[k + 1] # ")"})

\* len(line.strip())
StrippedLen(line) ==
    CASE line.kind = "blank" -> 0
      [] line.kind = "hash" -> 6
      [] line.kind = "include" -> 39
      [] line.kind = "slash" -> 7
      [] line.kind = "code" -> 5
      [] line.kind = "long_a" -> 45
      [] line.kind = "long_b" -> 46
      [] line.kind = "def" -> 6 + ParamsLen(line.toks) + 2
      [] line.kind = "function" -> 11 + ParamsLen(line.toks) + 3
      [] line.kind = "method" -> 14 + ParamsLen(line.toks) + 3
      [] line.kind = "close" -> 1
      [] line.kind = "quote" -> 7
      [] line.kind = "openquote" -> 6
      [] line.kind = "class" -> 8
      [] line.kind = "jclass" -> 9
      [] line.kind = "if" -> 3 + ConditionLen(line.toks) + 1
      [] line.kind = "return" -> 8
      [] line.kind = "break" -> 5
      [] line.kind = "jsbreak" -> 6
      [] line.kind = "else" -> 5
      [] OTHER -> 0

\* line.strip(): two lines have the same stripped text when they have the
\* same kind and tokens.
Stripped(line) == [kind |-> line.kind, toks |-> line.toks]

\* A test that lets short lines through.
DuplicateCandidateOfAnyLength(line) ==
    ~IsBlank(line) /\ ~StartsWithHash(line) /\ ~StartsWithSlashes(line)
\* "Skip empty lines, comments, and short lines"
DuplicateCandidate(line) ==
    /\ ~IsBlank(line)
    /\ ~StartsWithHash(line)
    /\ ~StartsWithSlashes(line)
    /\ StrippedLen(line) >= min_line_length

\* A results list that outlives the call: what the call before left in it.
ResultsOfLastCall == results
\* results = []: the list a call of the detector starts from.
NewResults == <<>>

\* line_dict[stripped_line]: the 1-based numbers of the lines of that text.
Occurrences(content, i) ==
    Collect(1, Len(content),
            LAMBDA j : Stripped(content[j]) = Stripped(content[i]), LAMBDA j : j)

\* One result per key of line_dict with more than one occurrence, in the
\* order the keys were inserted: the order of their first occurrences.
_detect_duplicate_code(content, ext) ==
    NewResults \o
    Collect(1, Len(content),
            LAMBDA i : /\ DuplicateCandidate(content[i])
                       /\ Len(Occurrences(content, i)) > 1
                       /\ Occurrences(content, i)[1] = i,
            LAMBDA i : Result("Lines", "", Occurrences(content, i)))

(***************************************************************************)
(* _detect_complex_conditional                                             *)
(***************************************************************************)

\* The condition the pattern captures on an "if" line (tokens: a name "a",
\* "and", "or", "&&", "||", "not", "(", ")"):
\*   r"if\s+(.+?):"      everything up to the colon;
\*   r"if\s*\((.+?)\)"   what follows an opening parenthesis at the start, up
\*                       to the first closing one.
RECURSIVE UpToFirstClose(_)
UpToFirstClose(toks) ==
    IF toks = <<>> \/ Head(toks) = ")" THEN <<>>
    ELSE <<Head(toks)>> \o UpToFirstClose(Tail(toks))

ConditionPatternMatches(p, line) ==
    /\ line.kind = "if"
    /\ line.toks # <<>>
    /\ (p = 2 => /\ Head(line.toks) = "("
                 /\ ")" \in Range(Tail(line.toks))
                 /\ UpToFirstClose(Tail(line.toks)) # <<>>)

Condition(p, line) ==
    IF p = 1 THEN line.toks ELSE UpToFirstClose(Tail(line.toks))

\* condition.count(' and ') + condition.count(' && ') + the same for or: an
\* operator between two operands has a space on either side.
OperatorCount(cond) == CountIn(cond, LAMBDA t : t \in {"and", "&&", "or", "||"})
OpenParens(cond) == CountIn(cond, LAMBDA t : t = "(")
CloseParens(cond) == CountIn(cond, LAMBDA t : t = ")")

ComplexConditionalsOf(p, content) ==
    Collect(1, Len(content),
            LAMBDA i : /\ ConditionPatternMatches(p, content[i])
                       /\ LET cond == Condition(p, content[i])
                          IN  /\ OpenParens(cond) = CloseParens(cond)
                              /\ (OperatorCount(cond) > 3 \/ OpenParens(cond) > 2),
            LAMBDA i : Result("Line", "", <<i>>))

_detect_complex_conditional(content, ext) ==
    ComplexConditionalsOf(1, content) \o ComplexConditionalsOf(2, content)

(***************************************************************************)
(* _detect_dead_code                                                       *)
(***************************************************************************)

\* The texts that hold one of function, class, if, for, while.
HoldsCodeKeyword(line) == line.kind \in {"function", "class", "jclass", "if"}

\* r"\/\/.*(?:function|class|if|for|while).*(?:\n\/\/.*)*" under re.DOTALL:
\* one match, from the first "//" to the end of the content, when a keyword
\* follows that "//" anywhere.  The patterns for "# <keyword>" and "/* */"
\* match no line of the kinds above.
FirstSlashLine(content) ==
    LET at == {i \in 1..Len(content) : StartsWithSlashes(content[i])}
    IN  IF at = {} THEN 0 ELSE CHOOSE i \in at : \A j \in at : i <= j

CommentedOutBlocks(content) ==
    LET s == FirstSlashLine(content)
    IN  IF /\ s > 0
           /\ \E k \in (s + 1)..Len(content) : HoldsCodeKeyword(content[k])
           /\ Len(content) - s + 1 > 2       \* len(comment_text.split('\n')) > 2
        THEN <<Result("Starting at line", "", <<s>>)>>
        ELSE <<>>

\* line.startswith("return ") or line == "return" or "break" or "continue"
IsJump(line) == line.kind \in {"return", "break"}

\* next_line.startswith("else"), "elif", "except", "finally"
StartsWithElse(line) == line.kind = "else"

UnreachableAfter(content, i) ==
    /\ IsJump(content[i])
    /\ content[i + 1].indent <= content[i].indent
    /\ ~IsBlank(content[i + 1])
    /\ ~StartsWithHash(content[i + 1])
    /\ ~StartsWithSlashes(content[i + 1])
    /\ ~StartsWithElse(content[i + 1])

UnreachableCode(content, ext) ==
    IF ext \in {"py", "js", "ts"}
    THEN Collect(1, Len(content) - 1, LAMBDA i : UnreachableAfter(content, i),
                 LAMBDA i : Result("Lines", "", <<i, i + 1>>))
    ELSE <<>>

_detect_dead_code(content, ext) ==
    CommentedOutBlocks(content) \o UnreachableCode(content, ext)

(***************************************************************************)
(* _detect_comment_overuse                                                 *)
(***************************************************************************)

\* "Skip if the file is too small": total_lines < 10
MinTotalLines == 10

\* Which lines the loop counts as comments and which as code: for "py" a
\* line that starts with '#' is a comment, for the six brace languages one
\* that starts with '//' ('/*', '*'); any other non-blank line is code.  For
\* another extension neither counter moves.
CountsAsComment(line, ext) ==
    \/ ext \in {"py"} /\ StartsWithHash(line)
    \/ ext \in {"js", "ts", "java", "c", "cpp", "cs"} /\ StartsWithSlashes(line)
CountsAsCode(line, ext) ==
    /\ ext \in {"py", "js", "ts", "java", "c", "cpp", "cs"}
    /\ ~IsBlank(line)
    /\ ~CountsAsComment(line, ext)

\* A trigger at 0.4 in the place of 0.5.
RatioAboveTriggerAtFourTenths(comment_lines, code_lines) == 10 * comment_lines > 4 * code_lines
\* comment_ratio > 0.5, with comment_ratio = comment_lines / code_lines
RatioAboveTrigger(comment_lines, code_lines) == 2 * comment_lines > code_lines

_detect_comment_overuse(content, ext) ==
    LET total_lines == Len(content)
        comment_lines == CountIn(content, LAMBDA l : CountsAsComment(l, ext))
        code_lines == CountIn(content, LAMBDA l : CountsAsCode(l, ext))
    IN  IF total_lines < MinTotalLines THEN <<>>
        ELSE IF code_lines > 0 /\ RatioAboveTrigger(comment_lines, code_lines)
        THEN <<Result("Throughout file", "", <<comment_lines, code_lines>>)>>
        ELSE <<>>

(***************************************************************************)
(* _pre_screen_smells                                                      *)
(***************************************************************************)

\* smell_info["detector"](file_content, file_ext)
Detect(smell_id, content, ext) ==
    CASE smell_id = "long_method" -> _detect_long_method(content, ext)
      [] smell_id = "large_class" -> _detect_large_class(content, ext)
      [] smell_id = "long_parameter_list" -> _detect_long_parameter_list(content, ext)
      [] smell_id = "duplicate_code" -> _detect_duplicate_code(content, ext)
      [] smell_id = "complex_conditional" -> _detect_complex_conditional(content, ext)
      [] smell_id = "dead_code" -> _detect_dead_code(content, ext)
      [] smell_id = "comment_overuse" -> _detect_comment_overuse(content, ext)

\* The smells of one detector: type, description and severity come from the
\* registry, "lines" from the result ("details" is formatted from the same
\* values as "lines" and is left out).
SmellsOf(registry, smell_id, content, ext) ==
    LET found == Detect(smell_id, content, ext)
    IN  [k \in 1..Len(found) |->
            [type |-> smell_id,
             description |-> registry[smell_id].description,
             severity |-> registry[smell_id].severity,
             lines |-> found[k]]]

RECURSIVE PreScreenFrom(_, _, _, _)
PreScreenFrom(registry, k, content, ext) ==
    IF k > Len(SmellIds) THEN <<>>
    ELSE (IF SmellIds[k] \in DOMAIN registry
          THEN SmellsOf(registry, SmellIds[k], content, ext) ELSE <<>>)
         \o PreScreenFrom(registry, k + 1, content, ext)

_pre_screen_smells(registry, content, ext) == PreScreenFrom(registry, 1, content, ext)

\* One call in the history of calls.
Call(op, content, ext, out) == [op |-> op, content |-> content, ext |-> ext, out |-> out]

\* analyze_file_smells up to the LLM call: the pre-screening of the file.
PreScreen ==
    /\ smell_pc = "call"
    /\ potential_smells' = _pre_screen_smells(smell_detectors, file_content, file_ext)
    /\ smell_op' = "_pre_screen_smells"
    /\ smell_pc' = "done"
    /\ smell_calls' = smell_calls + 1
    /\ seen' = seen \cup {Call("_pre_screen_smells", file_content, file_ext, potential_smells')}
    /\ UNCHANGED <<smell_detectors, file_content, file_ext, results, dedup_vars, cx_vars,
                   fanout_vars, api_vars, guide_vars>>

\* The smells of one type that the pre-screening returned.
SmellsOfType(t) == SelectSeq(potential_smells, LAMBDA s : s.type = t)

\* A fresh SmellDetector and one file to pre-screen.
SmellInit(contents, exts) ==
    /\ DedupIdle
    /\ CxIdle
    /\ FanoutIdle
    /\ ApiIdle
    /\ GuideIdle
    /\ smell_detectors = SmellRegistry
    /\ file_content \in contents
    /\ file_ext \in exts
    /\ smell_pc = "call"
    /\ smell_op = ""
    /\ smell_calls = 0
    /\ potential_smells = <<>>
    /\ results = <<>>
    /\ seen = {}

(***************************************************************************)
(* Long parameter lists: one declaration, pre-screened.                    *)
(***************************************************************************)

\* Most parameters of a declaration that is explored.
MaxParams == 7

\* The parameter lists of n parameters, each with or without a default.
RECURSIVE ParamLists(_)
ParamLists(n) ==
    IF n = 0 THEN {<<>>}
    ELSE {(IF p = <<>> THEN p ELSE p \o <<",">>) \o q :
              p \in ParamLists(n - 1), q \in {<<"a">>, <<"a", "=", "1">>}}

\* With and without a trailing comma.
ParamTexts ==
    UNION {ParamLists(n) : n \in 0..MaxParams}
        \cup UNION {{p \o <<",">> : p \in ParamLists(n)} : n \in 1..MaxParams}

Declarations ==
    {Line(k, i, t) : k \in {"def", "function", "method"}, i \in {0, 4}, t \in ParamTexts}

DeclarationFiles ==
    {<<d>> : d \in Declarations} \cup {<<Line("code", 0, <<>>), d>> : d \in Declarations}

ParamsInit == SmellInit(DeclarationFiles, {"py", "js", "ts", "jsx", "java", "rb"})

SpecParams == ParamsInit /\ [][PreScreen]_vars

\* The parameters a declaration declares: one per parameter name.
DeclaredParams(line) == CountIn(line.toks, LAMBDA t : t = "a")

\* The threshold the claim names for the language of the file.
ClaimedParamThreshold(ext) ==
    IF ext = "py" THEN 5 ELSE IF ext \in {"js", "ts"} THEN 3 ELSE 4

IsDeclaration(line) == line.kind \in {"def", "function", "method"}

\* C5: a declaration of at most threshold parameters gives no
\* long_parameter_list finding, one of threshold+1 parameters gives a
\* long_parameter_list finding of severity "medium" (each file of this
\* specification holds one declaration).
C5_LongParameterList ==
    smell_pc = "done" =>
        \A i \in 1..Len(file_content) :
            IsDeclaration(file_content[i]) =>
                /\ (DeclaredParams(file_content[i]) <= ClaimedParamThreshold(file_ext)
                        => SmellsOfType("long_parameter_list") = <<>>)
                /\ (DeclaredParams(file_content[i]) = ClaimedParamThreshold(file_ext) + 1
                        => \E k \in 1..Len(SmellsOfType("long_parameter_list")) :
                               SmellsOfType("long_parameter_list")[k].severity = "medium")

(***************************************************************************)
(* Long methods: one function, pre-screened.                               *)
(***************************************************************************)

\* Longest run of code lines that ends a function body.
MaxBodyRun == 36

CodeAt(i) == Line("code", i, <<>>)

\* A Python file: a def at indentation 0, a body of `first` code lines, then
\* `skipped` blank or comment lines, then `rest` code lines at one
\* indentation, and `after` code lines at indentation 0 behind the function.
PyFile(first, skipped, skip_kind, rest, rest_indent, after) ==
    <<Line("def", 0, <<>>)>> \o Run(CodeAt(4), first)
        \o Run(Line(skip_kind, 4, <<>>), skipped)
        \o Run(CodeAt(rest_indent), rest) \o Run(CodeAt(0), after)

PyFiles ==
    {PyFile(first, skipped, skip_kind, rest, rest_indent, after) :
        first \in {0, 1, 19}, skipped \in {0, 5, 16}, skip_kind \in {"blank", "hash"},
        rest \in 0..MaxBodyRun, rest_indent \in {4, 8}, after \in {0, 1}}

\* A brace-language file: a declaration, a body of code lines with or without
\* a line that holds a brace in a string, the closing brace or none, and
\* code lines behind it.
BraceFile(decl, first, quoted, rest, closed, after) ==
    <<decl>> \o Run(CodeAt(4), first)
        \o (IF quoted THEN <<Line("quote", 4, <<>>)>> ELSE <<>>)
        \o Run(CodeAt(4), rest)
        \o (IF closed THEN <<Line("close", 0, <<>>)>> ELSE <<>>)
        \o Run(CodeAt(0), after)

BraceFiles ==
    {BraceFile(decl, first, quoted, rest, closed, after) :
        decl \in {Line("function", 0, <<>>), Line("method", 0, <<>>)},
        first \in {0, 1}, quoted \in BOOLEAN, rest \in 0..MaxBodyRun,
        closed \in BOOLEAN, after \in {0, 1}}

LongMethodInit ==
    SmellInit(PyFiles \cup BraceFiles, {"py", "js", "tsx", "java", "c", "rb"})

SpecLongMethod == LongMethodInit /\ [][PreScreen]_vars

\* C6 as stated: a file of at most 30 lines gives no long_method finding.
C6_NoLongMethodUpTo30Lines ==
    smell_pc = "done" /\ Len(file_content) <= 30 => SmellsOfType("long_method") = <<>>

\* The long-method threshold of the language of a file.
LanguageThreshold(ext) ==
    IF ext \in {"js", "ts", "jsx", "tsx"} THEN 15 ELSE 20

\* C6 amended: a file of at most as many lines as the long-method threshold
\* of its language (20 for Python and for Java/C/C++/C#, 15 for JS/TS) gives
\* no long_method finding.
C6_NoLongMethodUpToThreshold ==
    smell_pc = "done" /\ Len(file_content) <= LanguageThreshold(file_ext)
        => SmellsOfType("long_method") = <<>>

\* C6 witness: a Python file of exactly 20 lines, all of them the lines of
\* its one function, was pre-screened.
C6_Witness ==
    /\ smell_pc = "done"
    /\ file_ext = "py"
    /\ Len(file_content) = 20
    /\ PyDefMatches(file_content[1])
    /\ PyMethodLineCount(file_content, 1) = 20

\* A Python file that is one function with a body of 35 lines: the def and
\* 35 lines behind it, every one of them inside the function.
IsFunctionWithBodyOf35(content) ==
    /\ Len(content) = 36
    /\ content[1].kind = "def"
    /\ \A i \in 2..36 : content[i].kind # "def" /\ content[i].indent > 0
    /\ content[2].kind = "code"
    /\ \A i \in 2..36 : content[i].kind = "code" => content[i].indent = content[2].indent

\* C7: such a file gives exactly one long_method finding, of severity
\* "medium", and the finding holds the first and the last line of the
\* function, counted from 1 and both included.
C7_OneMediumFindingFor35Lines ==
    smell_pc = "done" /\ file_ext = "py" /\ IsFunctionWithBodyOf35(file_content)
        => /\ Len(SmellsOfType("long_method")) = 1
           /\ SmellsOfType("long_method")[1].severity = "medium"
           /\ SmellsOfType("long_method")[1].lines.nums = <<1, 36>>

\* The part of C7 that the detector meets on a body of 35 code lines: one
\* finding, of severity "medium", that holds the line count 36.
C7_CodeOnlyBody ==
    /\ smell_pc = "done" /\ file_ext = "py" /\ IsFunctionWithBodyOf35(file_content)
    /\ \A i \in 2..36 : file_content[i].kind = "code"
    => /\ Len(SmellsOfType("long_method")) = 1
       /\ SmellsOfType("long_method")[1].severity = "medium"
       /\ SmellsOfType("long_method")[1].lines.nums = <<36>>

(***************************************************************************)
(* Comment overuse: files of code, comment and blank lines, pre-screened.  *)
(***************************************************************************)

\* Most lines of one kind in a file.
MaxKindLines == 11

CommentFiles ==
    {Run(CodeAt(0), code) \o Run(Line("hash", 0, <<>>), hashes)
         \o Run(Line("slash", 0, <<>>), slashes) \o Run(Line("blank", 0, <<>>), blanks) :
        code \in 0..MaxKindLines, hashes \in 0..MaxKindLines,
        slashes \in {0, 1, 6}, blanks \in {0, 1, 2}} \ {<<>>}

CommentInit == SmellInit(CommentFiles, {"py", "js", "rb"})

SpecComment == CommentInit /\ [][PreScreen]_vars

\* The lines of a file that are comments, and that are code, in the comment
\* syntax of its language.
CommentLines == CountIn(file_content, LAMBDA l : CountsAsComment(l, file_ext))
CodeLines == CountIn(file_content, LAMBDA l : CountsAsCode(l, file_ext))
SupportedForComments == file_ext \in {"py", "js", "ts", "java", "c", "cpp", "cs"}

MaxCalls == 3

\* Files with and without duplicate lines, long functions and comments.
PureFiles ==
    { <<Line("long_a", 0, <<>>), Line("long_b", 0, <<>>), Line("long_a", 0, <<>>)>>
          \o Run(Line("hash", 0, <<>>), 8),
      <<Line("def", 0, <<"a", ",", "a", ",", "a", ",", "a", ",", "a", ",", "a">>)>>
          \o Run(CodeAt(4), 21) \o <<Line("long_b", 4, <<>>), Line("long_b", 4, <<>>)>> }

PureExts == {"py", "js"}

PureInit == SmellInit(PureFiles, PureExts)

\* A detector method called directly on the instance.
DetectDirect ==
    /\ smell_pc = "call"
    /\ \E smell_id \in Range(SmellIds) :
          /\ results' = Detect(smell_id, file_content, file_ext)
          /\ smell_op' = smell_id
          /\ seen' = seen \cup {Call(smell_id, file_content, file_ext, results')}
    /\ smell_pc' = "done"
    /\ smell_calls' = smell_calls + 1
    /\ UNCHANGED <<smell_detectors, file_content, file_ext, potential_smells, dedup_vars,
                   cx_vars, fanout_vars, api_vars, guide_vars>>

\* The caller comes back to the same instance with another (or the same) file.
NextCall ==
    /\ smell_pc = "done"
    /\ smell_calls < MaxCalls
    /\ file_content' \in PureFiles
    /\ file_ext' \in PureExts
    /\ smell_pc' = "call"
    /\ UNCHANGED <<smell_detectors, smell_op, smell_calls, potential_smells, results, seen,
                   dedup_vars, cx_vars, fanout_vars, api_vars, guide_vars>>

SpecPure == PureInit /\ [][PreScreen \/ DetectDirect \/ NextCall]_vars

NumFiles == 5

\* config/settings.py: MAX_ANALYSIS_THREADS
max_parallel_analyses == 4

Files == 1..NumFiles

\* asyncio.Semaphore(len(files)): a permit for every file.
PermitPerFile == NumFiles
\* asyncio.Semaphore(self.max_parallel_analyses)
SemaphoreValue == max_parallel_analyses

\* The awaits of analyze_file, in order.
AnalysisSteps ==
    <<"analyze_file", "detect_smells", "detect_patterns", "suggest_refactorings",
      "generate_refactoring_guide">>

\* What an await of analyze_file can raise.
Exceptions == {"AttributeError"}

\* A handler that catches nothing.
CaughtNothing(exc) == FALSE
\* A handler for ValueError alone.
CaughtValueErrorOnly(exc) == exc = "ValueError"
\* except Exception as e: every exception of a step is caught.
Caught(exc) == exc \in Exceptions

\* FileAnalysis(file_path=file.path, ..., error=str(e)); error is "None" in
\* the FileAnalysis of a file whose analysis went through.
FileAnalysis(file, error) == [file_path |-> file, error |-> error]
\* The task of a file has not returned yet.
NoResult == [file_path |-> 0, error |-> "None"]

\* Where a task holds a permit.
InProgress == Range(AnalysisSteps) \cup {"returned", "raising"}

FanoutInit ==
    /\ DedupIdle
    /\ CxIdle
    /\ SmellIdle
    /\ ApiIdle
    /\ GuideIdle
    /\ semaphore = SemaphoreValue
    /\ task_pc = [f \in Files |-> "created"]
    /\ file_analyses = [f \in Files |-> NoResult]
    /\ gathered = "pending"

\* async with semaphore: acquire() takes a permit when there is one, and
\* waits otherwise.
Acquire(f) ==
    /\ task_pc[f] = "created"
    /\ semaphore > 0
    /\ semaphore' = semaphore - 1
    /\ task_pc' = [task_pc EXCEPT ![f] = AnalysisSteps[1]]
    /\ UNCHANGED <<file_analyses, gathered, dedup_vars, cx_vars, smell_vars, api_vars, guide_vars>>

\* One await of analyze_file returns: on to the next one, or to the return of
\* the FileAnalysis after the last.
Step(f) ==
    /\ \E k \in 1..Len(AnalysisSteps) :
          /\ task_pc[f] = AnalysisSteps[k]
          /\ IF k < Len(AnalysisSteps)
             THEN task_pc' = [task_pc EXCEPT ![f] = AnalysisSteps[k + 1]]
                  /\ UNCHANGED file_analyses
             ELSE task_pc' = [task_pc EXCEPT ![f] = "returned"]
                  /\ file_analyses' = [file_analyses EXCEPT ![f] = FileAnalysis(f, "None")]
    /\ UNCHANGED <<semaphore, gathered, dedup_vars, cx_vars, smell_vars, api_vars, guide_vars>>

\* One await of analyze_file raises: the except branch returns a FileAnalysis
\* that holds the error; an exception it does not catch leaves the task.
Fail(f) ==
    /\ task_pc[f] \in Range(AnalysisSteps)
    /\ \E exc \in Exceptions :
          IF Caught(exc)
          THEN /\ task_pc' = [task_pc EXCEPT ![f] = "returned"]
               /\ file_analyses' = [file_analyses EXCEPT ![f] = FileAnalysis(f, exc)]
          ELSE /\ task_pc' = [task_pc EXCEPT ![f] = "raising"]
               /\ UNCHANGED file_analyses
    /\ UNCHANGED <<semaphore, gathered, dedup_vars, cx_vars, smell_vars, api_vars, guide_vars>>

\* The end of the async with block, left by a return or by an exception:
\* release().
Release(f) ==
    /\ task_pc[f] \in {"returned", "raising"}
    /\ semaphore' = semaphore + 1
    /\ task_pc' = [task_pc EXCEPT ![f] = IF task_pc[f] = "returned" THEN "done" ELSE "failed"]
    /\ UNCHANGED <<file_analyses, gathered, dedup_vars, cx_vars, smell_vars, api_vars, guide_vars>>

\* await asyncio.gather(*tasks): the list of the results when every task has
\* returned; the exception of a task, as soon as one ends with it.
Gather ==
    /\ gathered = "pending"
    /\ \/ \A f \in Files : task_pc[f] = "done"
       \/ \E f \in Files : task_pc[f] = "failed"
    /\ gathered' = IF \E f \in Files : task_pc[f] = "failed" THEN "raised" ELSE "returned"
    /\ UNCHANGED <<semaphore, task_pc, file_analyses, dedup_vars, cx_vars, smell_vars, api_vars, guide_vars>>

FanoutNext == Gather \/ \E f \in Files : Acquire(f) \/ Step(f) \/ Fail(f) \/ Release(f)

SpecFanout == FanoutInit /\ [][FanoutNext]_vars

FilesInProgress == {f \in Files : task_pc[f] \in InProgress}

\* C10: in every reachable state of the fan-out, at most
\* max_parallel_analyses files hold a permit.
C10_BoundedParallelism ==
    task_pc # <<>> => Cardinality(FilesInProgress) <= max_parallel_analyses

\* C10 witness: max_parallel_analyses files are being analysed and another
\* one waits for a permit.
C10_Witness ==
    /\ task_pc # <<>>
    /\ Cardinality(FilesInProgress) = max_parallel_analyses
    /\ semaphore = 0
    /\ \E f \in Files : task_pc[f] = "created"

SupportedExtensions == {"py", "js", "ts", "jsx", "tsx", "java", "c", "cpp", "cs"}

\* C12: pre-screening a file whose extension is not a supported one yields no
\* potential smell: each of the seven detectors returns an empty result.
C12_UnsupportedExtensionNoSmells ==
    smell_pc = "done" /\ file_ext \notin SupportedExtensions => potential_smells = <<>>

(***************************************************************************)
(* Malformed declarations: two declarations in a brace-language file.      *)
(***************************************************************************)

\* Longest body of the later declaration.
MaxLaterBody == 22

BraceDeclarations == {Line("function", 0, <<>>), Line("method", 0, <<>>)}

\* A first declaration with a short body, with or without a string that is
\* never closed and with or without its closing brace, and a later
\* declaration with a body of code lines, a closing brace or none.
TwoDeclarations(decl1, open_string, closed1, decl2, quoted, body2, closed2) ==
    <<decl1, CodeAt(4)>>
        \o (IF open_string THEN <<Line("openquote", 4, <<>>)>> ELSE <<>>)
        \o (IF closed1 THEN <<Line("close", 0, <<>>)>> ELSE <<>>)
        \o <<decl2>>
        \o (IF quoted THEN <<Line("quote", 4, <<>>)>> ELSE <<>>)
        \o Run(CodeAt(4), body2)
        \o (IF closed2 THEN <<Line("close", 0, <<>>)>> ELSE <<>>)

MalformedFiles ==
    {TwoDeclarations(decl1, open_string, closed1, decl2, quoted, body2, closed2) :
        decl1 \in BraceDeclarations, open_string \in BOOLEAN, closed1 \in BOOLEAN,
        decl2 \in BraceDeclarations, quoted \in BOOLEAN, body2 \in 0..MaxLaterBody,
        closed2 \in BOOLEAN}

MalformedInit == SmellInit(MalformedFiles, {"js", "ts", "java", "c"})

SpecMalformed == MalformedInit /\ [][PreScreen]_vars

\* The brace depth of the declaration on the first line of the file never
\* returns to zero.
FirstNeverCloses ==
    /\ file_ext \in {"js", "ts", "jsx", "tsx", "java", "c", "cpp", "cs"}
    /\ file_content[1].kind \in {"function", "method"}
    /\ ScanLines(file_content, 1,
                 IF file_ext \in {"js", "ts", "jsx", "tsx"} THEN JsQuotes ELSE CQuotes,
                 0, FALSE, "") = 0

\* The file with a plain code line in the place of its first line.
WithoutFirstDeclaration == [file_content EXCEPT ![1] = CodeAt(0)]

\* C13: a first declaration whose brace depth never returns to zero gives no
\* long_method finding, and the long_method findings of the file are those
\* of the same file with a plain line in the place of that declaration: the
\* later declarations are scanned and reported as if it were not there.
C13_MalformedDeclarationDropped ==
    smell_pc = "done" /\ FirstNeverCloses
        => SmellsOfType("long_method")
               = SmellsOf(SmellRegistry, "long_method", WithoutFirstDeclaration, file_ext)

\* C13 witness: the first declaration never closes and a later declaration
\* was reported as a long method.
C13_Witness ==
    /\ smell_pc = "done"
    /\ FirstNeverCloses
    /\ SmellsOfType("long_method") # <<>>

(***************************************************************************)
(* agents/pattern_recognizer.py: identify_patterns                         *)
(***************************************************************************)

\* Longest list of results of the LLM.
MaxLlmResults == 2

\* The scanned paths "a.py", "b.java" and "c.js", and "z.py", a path that
\* only the LLM names.  os.path.splitext(file_path)[1].lower() and
\* os.path.basename(file_path).lower():
Ext(path) == CASE path = "B" -> ".java" [] path = "C" -> ".js" [] OTHER -> ".py"
Basename(path) ==
    CASE path = "A" -> "a.py" [] path = "B" -> "b.java" [] path = "C" -> "c.js" [] OTHER -> "z.py"

\* A content is the set of the searched texts that occur in it (with " new ",
\* the texts "new " and "new" that it holds).
Contents ==
    { {},
      {"_instance", "getInstance", "private ", " new ", "new ", "new", "static "},
      {"create", "return ", "notify"},
      {"module.exports"} }

\* A dictionary of one scanned path, or of the first two: its items in order.
FilesContents ==
    {<<>>} \cup {<<[path |-> p, content |-> c]>> : p \in {"A", "B", "C"}, c \in Contents}
        \cup {<<[path |-> pq[1], content |-> c], [path |-> pq[2], content |-> d]>> :
                 pq \in {<<"A", "B">>, <<"B", "A">>}, c \in Contents, d \in Contents}

Keys(fc) == {fc[i].path : i \in 1..Len(fc)}

\* The texts searched in the name of a file, none of which is in a name here.
InName(text, path) == FALSE

\* detect_singleton
detect_singleton(path, content) ==
    IF Ext(path) = ".py"
    THEN ("_instance" \in content \/ "__instance" \in content)
         /\ ("get_instance" \in content \/ "getInstance" \in content)
    ELSE IF Ext(path) \in {".js", ".ts", ".jsx", ".tsx"}
    THEN \/ ("this.instance" \in content \/ "this._instance" \in content)
            /\ "getInstance" \in content
         \/ "module.exports" \in content /\ "new " \notin content
    ELSE IF Ext(path) \in {".java", ".cs"}
    THEN /\ "private " \in content /\ " new " \in content
         /\ "static " \in content /\ "getInstance" \in content
    ELSE FALSE

\* detect_factory: the name, the content, then the checks by language (a
\* regular expression is the text it searches).
detect_factory(path, content) ==
    \/ InName("factory", path)
    \/ "create" \in content /\ ("return new" \in content \/ "return " \in content)
    \/ Ext(path) = ".py" /\ "def create_" \in content
    \/ Ext(path) \in {".js", ".ts"} /\ "function create" \in content
    \/ /\ Ext(path) \in {".java", ".cs"}
       /\ "abstract" \in content /\ "new" \in content
       /\ ("protected" \in content \/ "public" \in content)

\* detect_observer
detect_observer(path, content) ==
    \/ InName("observer", path) \/ InName("listener", path) \/ InName("event", path)
    \/ \E method \in {"subscribe", "unsubscribe", "notify", "addListener",
                      "removeListener", "addEventListener", "on("} : method \in content
    \/ Ext(path) = ".py" /\ "def notify(" \in content
    \/ Ext(path) \in {".js", ".ts"} /\ "emit(" \in content
          /\ ("on(" \in content \/ "addEventListener" \in content)
    \/ Ext(path) \in {".java"}
          /\ ("implements Observer" \in content \/ "extends Observable" \in content)

\* The detector of one heuristic pattern.
Detects(name, path, content) ==
    CASE name = "Singleton" -> detect_singleton(path, content)
      [] name = "Factory" -> detect_factory(path, content)
      [] name = "Observer" -> detect_observer(path, content)

\* The paths that the detector of a pattern accepts.
DetectedFiles(fc, name) ==
    {fc[i].path : i \in {j \in 1..Len(fc) : Detects(name, fc[j].path, fc[j].content)}}

\* One heuristic pattern, when some file shows it.
HeuristicPattern(name, files, confidence) ==
    IF files = {} THEN <<>> ELSE <<DesignPattern(name, files, confidence, name)>>

\* heuristic_pattern_detection: confidences 0.8, 0.7, 0.7; the description of
\* a pattern is a fixed text, kept here as the name of the pattern.
heuristic_pattern_detection(fc) ==
    HeuristicPattern("Singleton", DetectedFiles(fc, "Singleton"), 8)
        \o HeuristicPattern("Factory", DetectedFiles(fc, "Factory"), 7)
        \o HeuristicPattern("Observer", DetectedFiles(fc, "Observer"), 7)

\* A result of the LLM: a dict with a name, files, and a confidence (<<c>>)
\* or none (<<>>); or something that is not such a dict.  Confidences are in
\* tenths, and the LLM is free to answer any number.
LlmConfidences == {<<>>, <<-2>>, <<9>>, <<15>>}
LlmResult(n, f, c) == [well_formed |-> TRUE, name |-> n, files |-> f, confidence |-> c]
NotAPattern == [well_formed |-> FALSE, name |-> "", files |-> {}, confidence |-> <<>>]
LlmResultChoices ==
    {LlmResult(n, f, c) : n \in {"Singleton", "Strategy"}, f \in {{"B"}, {"A", "Z"}},
                          c \in LlmConfidences} \cup {NotAPattern}

\* valid_files with no test against files_content.
ValidFilesUnfiltered(files, fc) == files
\* valid_files = [f for f in result.get('files', []) if f in files_content]
ValidFiles(files, fc) == files \cap Keys(fc)

\* float(result.get('confidence', 0.5))
ResultConfidence(result) == IF result.confidence = <<>> THEN 5 ELSE result.confidence[1]

\* The loop over llm_results: a DesignPattern for every result that is a
\* dict with name and files and that names a scanned file.
RECURSIVE PatternsOfResults(_, _)
PatternsOfResults(rs, fc) ==
    IF rs = <<>> THEN <<>>
    ELSE (IF Head(rs).well_formed /\ ValidFiles(Head(rs).files, fc) # {}
          THEN <<DesignPattern(Head(rs).name, ValidFiles(Head(rs).files, fc),
                               ResultConfidence(Head(rs)), "llm")>>
          ELSE <<>>) \o PatternsOfResults(Tail(rs), fc)

\* llm_pattern_detection: no file selected, no call of the LLM.
llm_pattern_detection(fc, rs) == IF fc = <<>> THEN <<>> ELSE PatternsOfResults(rs, fc)

IdentifyInit ==
    /\ CxIdle
    /\ SmellIdle
    /\ FanoutIdle
    /\ ApiIdle
    /\ GuideIdle
    /\ files_content \in FilesContents
    /\ llm_results \in SeqsUpTo(LlmResultChoices, MaxLlmResults)
    /\ patterns = <<>>
    /\ dedup_pc = "heuristic"
    /\ dedup_result = <<>>

\* patterns.extend(heuristic_patterns)
HeuristicDetection ==
    /\ dedup_pc = "heuristic"
    /\ patterns' = heuristic_pattern_detection(files_content)
    /\ dedup_pc' = "llm"
    /\ UNCHANGED <<files_content, llm_results, dedup_result, cx_vars, smell_vars, fanout_vars, api_vars, guide_vars>>

\* all_patterns = patterns + llm_patterns
LlmDetection ==
    /\ dedup_pc = "llm"
    /\ patterns' = patterns \o llm_pattern_detection(files_content, llm_results)
    /\ dedup_pc' = "call"
    /\ UNCHANGED <<files_content, llm_results, dedup_result, cx_vars, smell_vars, fanout_vars, api_vars, guide_vars>>

SpecIdentify == IdentifyInit /\ [][HeuristicDetection \/ LlmDetection \/ Deduplicate]_vars

\* C14: every DesignPattern that identify_patterns returns has a confidence
\* within [0,1] (0..10 tenths).
C14_ConfidenceWithinUnitInterval ==
    dedup_pc = "done" =>
        \A i \in 1..Len(dedup_result) :
            dedup_result[i].confidence >= 0 /\ dedup_result[i].confidence <= 10

\* C15: every file of every returned DesignPattern is a key of files_content,
\* and every returned pattern lists at least one file.
C15_FilesAreScannedFiles ==
    dedup_pc = "done" =>
        \A i \in 1..Len(dedup_result) :
            dedup_result[i].files # {} /\ dedup_result[i].files \subseteq Keys(files_content)

\* C15 witness: the LLM named a file that was not scanned next to one that
\* was, and the pattern was returned, merged with a heuristic one.
C15_Witness ==
    /\ dedup_pc = "done"
    /\ \E k \in 1..Len(llm_results) :
          /\ llm_results[k].name = "Singleton"
          /\ "Z" \in llm_results[k].files
          /\ "A" \in Keys(files_content)
    /\ \E i \in 1..Len(dedup_result) :
          dedup_result[i].name = "Singleton" /\ dedup_result[i].files = {"A", "B"}

\* The severity that the metric of a finding asks for: "high" above 50 lines
\* of a method, above 15 methods of a class, above 6 parameters of a
\* function, and "medium" otherwise.
SeverityOfMetric(smell) ==
    LET metric == smell.lines.nums[1]
        high == CASE smell.type = "long_method" -> 50
                  [] smell.type = "large_class" -> 15
                  [] smell.type = "long_parameter_list" -> 6
    IN  IF metric > high THEN "high" ELSE "medium"

\* C16: a long_method, large_class or long_parameter_list finding has the
\* severity that its metric asks for.
C16_SeverityFollowsMetric ==
    smell_pc = "done" =>
        \A k \in 1..Len(potential_smells) :
            potential_smells[k].type \in {"long_method", "large_class", "long_parameter_list"}
                => potential_smells[k].severity = SeverityOfMetric(potential_smells[k])

(***************************************************************************)
(* Nested declarations: a declaration inside the body of another one.      *)
(***************************************************************************)

\* A Python file: a def at indentation 0 whose body holds code lines, a def
\* at indentation 4 with a body of code lines at indentation 8, and code
\* lines of the outer body behind it; then code lines behind the function.
PyNestedFile(before, inner, behind, after) ==
    <<Line("def", 0, <<>>)>> \o Run(CodeAt(4), before)
        \o <<Line("def", 4, <<>>)>> \o Run(CodeAt(8), inner)
        \o Run(CodeAt(4), behind) \o Run(CodeAt(0), after)

\* The same shape in a brace language, each declaration with its closing
\* brace.
BraceNestedFile(decl, before, nested, inner, behind, after) ==
    <<decl>> \o Run(CodeAt(4), before)
        \o <<nested>> \o Run(CodeAt(8), inner) \o <<Line("close", 4, <<>>)>>
        \o Run(CodeAt(4), behind) \o <<Line("close", 0, <<>>)>>
        \o Run(CodeAt(0), after)

NestedFiles ==
    {PyNestedFile(before, inner, behind, after) :
        before \in {0, 1}, inner \in 0..MaxLaterBody, behind \in {0, 1}, after \in {0, 1}}
    \cup
    {BraceNestedFile(decl, before, nested, inner, behind, after) :
        decl \in BraceDeclarations,
        before \in {0, 1},
        nested \in {Line("function", 4, <<>>), Line("method", 4, <<>>)},
        inner \in 0..MaxLaterBody, behind \in {0, 1}, after \in {0, 1}}

NestedInit == SmellInit(NestedFiles, {"py", "js", "java"})

SpecNested == NestedInit /\ [][PreScreen]_vars

\* The line of the declaration that lies inside the body of the declaration
\* on the first line of the file.
NestedDeclaration ==
    CHOOSE i \in 2..Len(file_content) :
        file_content[i].kind \in {"def", "function", "method"}

\* The file with, in the place of the nested declaration, a line that opens
\* the same block and declares no function.
WithoutNestedDeclaration ==
    LET line == file_content[NestedDeclaration]
    IN  [file_content EXCEPT ![NestedDeclaration] =
            IF line.kind = "def" THEN CodeAt(line.indent)
            ELSE Line("jclass", line.indent, <<>>)]

\* C17: no long_method finding is produced for a function nested inside
\* another detected function: the long_method findings of the file are those
\* of the outer declaration alone.
C17_NoFindingForNestedFunction ==
    smell_pc = "done"
        => SmellsOfType("long_method")
               = SmellsOf(SmellRegistry, "long_method", WithoutNestedDeclaration, file_ext)

(***************************************************************************)
(* deduplicate_patterns: the merged description.                           *)
(***************************************************************************)

\* The descriptions of the input records of one name.
DescriptionsNamed(n) == {patterns[i].description : i \in InputsNamed(n)}

\* The first input record of name n that holds description d.
FirstSeen(n, d) ==
    CHOOSE i \in InputsNamed(n) :
        /\ patterns[i].description = d
        /\ \A j \in InputsNamed(n) : patterns[j].description = d => i <= j

\* d is the longest of the descriptions ds of the records named n and, of
\* the descriptions of that length, the one seen first in input order.
LongestFirstSeen(n, d, ds) ==
    /\ d \in ds
    /\ \A e \in ds : Len(e) <= Len(d)
    /\ \A e \in ds : Len(e) = Len(d) => FirstSeen(n, d) <= FirstSeen(n, e)

\* C18 as stated: for every name of two or more input records the merged
\* description is the longest of the group's distinct descriptions, the one
\* seen first among those of the greatest length.
C18_LongestDescriptionFirstSeen ==
    dedup_pc = "done" =>
        \A n \in PatternNames :
            Cardinality(InputsNamed(n)) >= 2 =>
                \A o \in OutputsNamed(n) :
                    LongestFirstSeen(n, dedup_result[o].description, DescriptionsNamed(n))

\* C18 amended: the same of the group's distinct non-empty descriptions, and
\* the text "No description provided" when every description of the group is
\* empty.
C18_LongestNonEmptyDescriptionFirstSeen ==
    dedup_pc = "done" =>
        \A n \in PatternNames :
            Cardinality(InputsNamed(n)) >= 2 =>
                \A o \in OutputsNamed(n) :
                    IF DescriptionsNamed(n) \subseteq {""}
                    THEN dedup_result[o].description = "No description provided"
                    ELSE LongestFirstSeen(n, dedup_result[o].description,
                                          DescriptionsNamed(n) \ {""})

\* C18 witness: a group whose two longest descriptions have the same length
\* was merged, and the one seen first, which comes second in alphabetical
\* order, was chosen.
C18_Witness ==
    /\ dedup_pc = "done"
    /\ Len(patterns) = 3
    /\ \A i \in 1..3 : patterns[i].name = "singleton"
    /\ patterns[1].description = ""
    /\ patterns[2].description = "cd"
    /\ patterns[3].description = "ab"
    /\ dedup_result[1].description = "cd"

(***************************************************************************)
(* estimate_file_complexity: the control-keyword bonus.                    *)
(***************************************************************************)

\* The lines whose trimmed text starts with a control keyword, and whether
\* they are more than a tenth of the lines of the file.
ControlKeywordLines(f) ==
    SumOver(f.n, LAMBDA i : IF StartsWithControlKeyword(LineClasses[i].text) THEN 1 ELSE 0)
DensityAboveTenth(f) == ControlKeywordLines(f) * 10 > LineCount(f)

\* The score of a file whose control-keyword bonus is `bonus`.
ScoreWithBonus(f, bonus) ==
    Min(100, 10 + LineCountBonus(LineCount(f)) + IndentBonus(f) + FunctionCountBonus(f)
                + bonus)

\* C19 as stated: the score of every file holds +1.0 (before clamping) when
\* more than a tenth of its lines start with a control keyword and nothing
\* otherwise, whatever its extension.
C19_KeywordBonusForEveryFile ==
    \A i \in 1..Len(complexities) :
        complexities[i] =
            ScoreWithBonus(cx_files[i], IF DensityAboveTenth(cx_files[i]) THEN 10 ELSE 0)

\* C19 amended: the same for a file whose extension is .py, .js or .ts, and
\* no control-keyword bonus for a file of any other extension.
C19_KeywordBonusForPyJsTs ==
    \A i \in 1..Len(complexities) :
        complexities[i] =
            ScoreWithBonus(cx_files[i],
                           IF cx_files[i].ext \in {".py", ".js", ".ts"}
                              /\ DensityAboveTenth(cx_files[i])
                           THEN 10 ELSE 0)

\* C19 witness: a .py file and a longer one were scored; more than a tenth of
\* the lines of the first start with a control keyword and its score holds
\* the bonus, the added lines took the second to a tenth or below and its
\* score holds none.
C19_Witness ==
    /\ cx_pc = 2
    /\ cx_files[1].ext = ".py"
    /\ DensityAboveTenth(cx_files[1])
    /\ ~DensityAboveTenth(cx_files[2])
    /\ complexities[1] = ScoreWithBonus(cx_files[1], 0) + 10
    /\ complexities[2] = ScoreWithBonus(cx_files[2], 0)

(***************************************************************************)
(* The Python boundary scan: the indentation that closes a def.            *)
(***************************************************************************)

\* A Python file: a def at indentation 0, or at indentation 4 under a class
\* line; one code line at indentation `first`; `rest` code lines at
\* indentation `later`; one code line at indentation 0.
IndentFile(level, first, rest, later) ==
    (IF level > 0 THEN <<Line("class", 0, <<>>)>> ELSE <<>>)
        \o <<Line("def", level, <<>>), CodeAt(first)>>
        \o Run(CodeAt(later), rest) \o <<CodeAt(0)>>

IndentFiles ==
    {IndentFile(level, first, rest, later) :
        level \in {0, 4}, first \in {4, 8}, rest \in 0..MaxLaterBody, later \in {4, 8, 12}}

IndentInit == SmellInit(IndentFiles, {"py"})

SpecIndent == IndentInit /\ [][PreScreen]_vars

\* The line of the def of the file.
DefLine == CHOOSE i \in 1..Len(file_content) : file_content[i].kind = "def"

\* The first line behind the def that is neither blank nor a comment and is
\* indented no deeper than the def.
ClosingLineOfDef ==
    CHOOSE i \in (DefLine + 1)..Len(file_content) :
        LET closes(j) == /\ ~IsBlank(file_content[j])
                         /\ ~StartsWithHash(file_content[j])
                         /\ file_content[j].indent <= file_content[DefLine].indent
        IN  closes(i) /\ \A j \in (DefLine + 1)..(i - 1) : ~closes(j)

\* The def line and the lines of the body between it and the closing line
\* that are neither blank nor comments.
LinesOfDef ==
    1 + Cardinality({j \in (DefLine + 1)..(ClosingLineOfDef - 1) :
                        ~IsBlank(file_content[j]) /\ ~StartsWithHash(file_content[j])})

\* C20: the body of a def at indentation L ends before the first line,
\* neither blank nor a comment, that is indented no deeper than L: the def is
\* reported as a long method exactly when the lines up to there are more
\* than the threshold, and with that number of lines.
C20_BodyEndsAtIndentationOfDef ==
    smell_pc = "done" =>
        LET found == SmellsOfType("long_method")
        IN  [k \in 1..Len(found) |-> found[k].lines.nums[1]] =
                IF LinesOfDef > PyLongMethodThreshold THEN <<LinesOfDef>> ELSE <<>>

(***************************************************************************)
(* The Python boundary scan: blank lines and comments inside a function.   *)
(***************************************************************************)

\* The last line of the body of the def on the first line of a Python file
\* whose indented code lines all belong to that def: the last indented line
\* that is neither blank nor a comment, or the def line when there is none.
LastBodyLine ==
    LET body == {j \in 2..Len(file_content) :
                    /\ ~IsBlank(file_content[j])
                    /\ ~StartsWithHash(file_content[j])
                    /\ file_content[j].indent > 0}
    IN  IF body = {} THEN 1 ELSE CHOOSE j \in body : \A k \in body : k <= j

\* C21: the line_count of a Python function is the number of lines from the
\* declaration line to the last body line, the blank and comment lines
\* between them included: the function is reported exactly when that number
\* is above the threshold, and with that number.
C21_BlankAndCommentLinesCounted ==
    smell_pc = "done" /\ file_ext = "py" /\ file_content[1].kind = "def" =>
        LET found == SmellsOfType("long_method")
        IN  [k \in 1..Len(found) |-> found[k].lines.nums[1]] =
                IF LastBodyLine > PyLongMethodThreshold THEN <<LastBodyLine>> ELSE <<>>

(***************************************************************************)
(* Duplicate code: files of a few lines.                                   *)
(***************************************************************************)

\* Most lines of a file that is explored for duplicates.
MaxDupLines == 4

DupLines ==
    {Line(k, 0, <<>>) : k \in {"long_a", "long_b", "include", "code", "slash", "blank"}}

DupFiles == SeqsUpTo(DupLines, MaxDupLines) \ {<<>>}

DupInit == SmellInit(DupFiles, {"py", "js", "c"})

SpecDuplicate == DupInit /\ [][PreScreen]_vars

\* A comment of the language of the file: a line that starts with '#' in a
\* Python file, one that starts with '//' in a brace language.  In a C file
\* a line that starts with '#' is a preprocessor directive.
IsCommentIn(line, ext) ==
    \/ ext = "py" /\ StartsWithHash(line)
    \/ ext \in {"js", "ts", "java", "c", "cpp", "cs"} /\ StartsWithSlashes(line)

\* The numbers of the lines that hold the trimmed text of line i.
SameTextLines(i) ==
    {j \in 1..Len(file_content) : Stripped(file_content[j]) = Stripped(file_content[i])}

\* Line i holds at least 30 characters, is neither blank nor a comment, and
\* its text occurs two or more times.
DuplicatedLine(i) ==
    /\ StrippedLen(file_content[i]) >= 30
    /\ ~IsBlank(file_content[i])
    /\ ~IsCommentIn(file_content[i], file_ext)
    /\ Cardinality(SameTextLines(i)) >= 2

MaxOperands == 5

\* The conditions of n operands, each a name, a negated name or a name in
\* parentheses, joined by one operator.
RECURSIVE Conditions(_, _)
Conditions(n, op) ==
    LET operands == {<<"a">>, <<"not", "a">>, <<"(", "a", ")">>}
    IN  IF n = 1 THEN operands
        ELSE {c \o <<op>> \o x : c \in Conditions(n - 1, op), x \in operands}

\* With and without parentheses around the whole condition.
ConditionTexts ==
    LET plain == UNION {Conditions(n, op) : n \in 1..MaxOperands, op \in {"and", "or", "&&"}}
    IN  plain \cup {<<"(">> \o c \o <<")">> : c \in plain}

ConditionFiles ==
    {<<Line("code", 0, <<>>), Line("if", 0, c), Line("code", 4, <<>>)>> : c \in ConditionTexts}

ConditionInit == SmellInit(ConditionFiles, {"py", "js"})

SpecConditional == ConditionInit /\ [][PreScreen]_vars

\* The logical operators and the parenthesis groups of the conditional on the
\* second line of the file.
LogicalOperators ==
    CountIn(file_content[2].toks, LAMBDA t : t \in {"and", "or", "not", "&&", "||"})
ParenthesisGroups == CountIn(file_content[2].toks, LAMBDA t : t = "(")

\* C23: the conditional is reported once when it has more than 3 logical
\* operators or more than 2 parenthesis groups, and not at all otherwise.
C23_ReportedOnceWhenComplex ==
    smell_pc = "done" =>
        LET found == SmellsOfType("complex_conditional")
        IN  [k \in 1..Len(found) |-> found[k].lines.nums] =
                IF LogicalOperators > 3 \/ ParenthesisGroups > 2 THEN << <<2>> >> ELSE <<>>

(***************************************************************************)
(* Dead code: the line behind a return or a break.                         *)
(***************************************************************************)

DeadCodeLines ==
    {Line(k, i, <<>>) : k \in {"return", "break", "jsbreak", "code", "hash", "else"},
                        i \in {0, 4}}
        \cup {Line("blank", 0, <<>>)}

\* Files of two and of three lines.
DeadCodeFiles ==
    {<<a, b>> : a \in DeadCodeLines, b \in DeadCodeLines}
        \cup {<<a, b, c>> : a \in DeadCodeLines, b \in DeadCodeLines, c \in DeadCodeLines}

DeadCodeInit == SmellInit(DeadCodeFiles, {"py", "js", "java"})

SpecDeadCode == DeadCodeInit /\ [][PreScreen]_vars

\* A return, break or continue statement.
IsJumpStatement(line) == line.kind \in {"return", "break", "jsbreak"}

\* Line i is such a statement and the line behind it is not blank, is not a
\* comment, does not start with else and is indented no deeper.
UnreachableBehind(i) ==
    /\ IsJumpStatement(file_content[i])
    /\ ~IsBlank(file_content[i + 1])
    /\ ~StartsWithHash(file_content[i + 1])
    /\ ~StartsWithSlashes(file_content[i + 1])
    /\ ~StartsWithElse(file_content[i + 1])
    /\ file_content[i + 1].indent <= file_content[i].indent

\* The unreachable-code findings among the dead_code findings: those that
\* name a pair of lines.
UnreachableFindings ==
    SelectSeq(SmellsOfType("dead_code"), LAMBDA s : s.lines.label = "Lines")

\* C24: in a Python, JS or TS file there is one unreachable-code finding for
\* every such pair of lines, naming the two lines, and no other; in a file of
\* another language there is none.
C24_UnreachableAfterEveryJump ==
    smell_pc = "done" =>
        LET found == UnreachableFindings
        IN  /\ {found[k].lines.nums : k \in 1..Len(found)} =
                  IF file_ext \in {"py", "js", "ts"}
                  THEN {<<i, i + 1>> : i \in {j \in 1..(Len(file_content) - 1) :
                                                 UnreachableBehind(j)}}
                  ELSE {}
            /\ \A k, m \in 1..Len(found) : found[k] = found[m] => k = m

\* The content of a scanned file.
ContentOf(path) ==
    LET i == CHOOSE j \in 1..Len(files_content) : files_content[j].path = path
    IN  files_content[i].content

\* An instance-holder identifier, and an accessor named like get-instance.
HasInstanceHolder(content) ==
    \E t \in {"_instance", "__instance", "this.instance", "this._instance"} : t \in content
HasInstanceAccessor(content) == "get_instance" \in content \/ "getInstance" \in content

\* C25: every file that the heuristic detection reports as a Singleton holds
\* an instance-holder identifier and an accessor named like get-instance.
C25_SingletonHasHolderAndAccessor ==
    dedup_pc = "llm" =>
        \A i \in 1..Len(patterns) :
            patterns[i].name = "Singleton" =>
                \A f \in patterns[i].files :
                    HasInstanceHolder(ContentOf(f)) /\ HasInstanceAccessor(ContentOf(f))

(***************************************************************************)
(* The HTTP API: api/dependencies.py, api/endpoints/repositories.py and    *)
(* api/endpoints/analysis.py.  The three stores are module-level           *)
(* dictionaries; every handler and background task is a coroutine of one   *)
(* event loop, so control changes hands only at an await.                  *)
(***************************************************************************)
MaxRepositories == 2
MaxAnalyses == 2

RepoIds == 1 .. MaxRepositories
AnalysisIds == 1 .. MaxAnalyses

\* models/repository.py and models/analysis.py: the status enumerations
RepositoryStatus == {"pending", "cloning", "analyzing", "completed", "failed"}
AnalysisStatus == {"pending", "in_progress", "completed", "failed"}

\* generate_id: uuid4 never repeats, so an id is the first one not yet used
generate_id(pc) == CHOOSE i \in DOMAIN pc : pc[i] = "unused" /\ \A j \in DOMAIN pc : j < i => pc[j] # "unused"

\* dict.pop(key, None)
Pop(db, key) == [k \in DOMAIN db \ {key} |-> db[k]]

\* dependencies.get_repository: the status code of the answer
get_repository(repo_id) == IF repo_id \notin DOMAIN repositories_db THEN 404 ELSE 200

\* dependencies.get_report
get_report(report_id) == IF report_id \notin reports_db THEN 404 ELSE 200

\* analysis.get_analysis_report: the status code of the answer; report_id 0
\* stands for a record without the key
get_analysis_report(analysis_id) ==
    IF analysis_id \notin DOMAIN analyses_db THEN 404
    ELSE IF analyses_db[analysis_id].status # "completed" THEN 404
    ELSE IF analyses_db[analysis_id].report_id = 0 THEN 404
    ELSE get_report(analyses_db[analysis_id].report_id)

\* A service whose clone_repository takes (repo_url, branch) and returns a
\* repository object
clone_repository_with_branch == "Repository"

\* GitIngestService.clone_repository(self, repo_url) is declared with one
\* argument and returns a directory name or None.  process_repository calls
\* it with (repo_url, branch): the call raises TypeError before any
\* coroutine exists.
clone_repository == "TypeError"

ApiInit ==
    /\ repositories_db = <<>>
    /\ analyses_db = <<>>
    /\ reports_db = {}
    /\ repo_pc = [r \in RepoIds |-> "unused"]
    /\ analysis_pc = [a \in AnalysisIds |-> "unused"]
    /\ deleted = {}
    /\ DedupIdle
    /\ CxIdle
    /\ SmellIdle
    /\ FanoutIdle
    /\ GuideIdle

\* POST /repositories: the record is stored as PENDING and the background
\* task is scheduled
create_repository ==
    /\ \E r \in RepoIds : repo_pc[r] = "unused"
    /\ LET repo_id == generate_id(repo_pc) IN
        /\ repositories_db' = (repo_id :> [status |-> "pending", clone_path |-> "None"]) @@ repositories_db
        /\ repo_pc' = [repo_pc EXCEPT ![repo_id] = "scheduled"]
    /\ UNCHANGED <<analyses_db, reports_db, analysis_pc, deleted>>
    /\ UNCHANGED <<dedup_vars, cx_vars, smell_vars, fanout_vars, guide_vars>>

\* The background task of a repository.  The try block reaches no await:
\* the call of clone_repository raises, and the handler marks the record
\* FAILED only if the id is still a key.
process_repository(repo_id) ==
    /\ repo_pc[repo_id] = "scheduled"
    /\ repositories_db' =
         IF clone_repository = "Repository"
         THEN (repo_id :> [status |-> "completed", clone_path |-> "path"]) @@ repositories_db
         ELSE IF repo_id \in DOMAIN repositories_db
              THEN [repositories_db EXCEPT ![repo_id].status = "failed"]
              ELSE repositories_db
    /\ repo_pc' = [repo_pc EXCEPT ![repo_id] = "done"]
    /\ UNCHANGED <<analyses_db, reports_db, analysis_pc, deleted>>
    /\ UNCHANGED <<dedup_vars, cx_vars, smell_vars, fanout_vars, guide_vars>>

\* DELETE /repositories/{repo_id}: 404 for an unknown id; a record with a
\* clone_path would call cleanup_repository, which GitIngestService does not
\* have, and the request would end there; otherwise the entry is popped.
delete_repository(repo_id) ==
    /\ get_repository(repo_id) = 200
    /\ IF repositories_db[repo_id].clone_path # "None"
       THEN UNCHANGED <<repositories_db, deleted>>
       ELSE /\ repositories_db' = Pop(repositories_db, repo_id)
            /\ deleted' = deleted \cup {<<repo_id, repo_pc[repo_id]>>}
    /\ UNCHANGED <<analyses_db, reports_db, repo_pc, analysis_pc>>
    /\ UNCHANGED <<dedup_vars, cx_vars, smell_vars, fanout_vars, guide_vars>>

\* POST /analyses: 404 unless the repository is stored; the record starts
\* PENDING and the background task is scheduled
create_analysis(repository_id) ==
    /\ repository_id \in DOMAIN repositories_db
    /\ \E a \in AnalysisIds : analysis_pc[a] = "unused"
    /\ LET analysis_id == generate_id(analysis_pc) IN
        /\ analyses_db' = (analysis_id :> [repository_id |-> repository_id, status |-> "pending", report_id |-> 0]) @@ analyses_db
        /\ analysis_pc' = [analysis_pc EXCEPT ![analysis_id] = "scheduled"]
    /\ UNCHANGED <<repositories_db, reports_db, repo_pc, deleted>>
    /\ UNCHANGED <<dedup_vars, cx_vars, smell_vars, fanout_vars, guide_vars>>

\* process_analysis up to its first await: IN_PROGRESS, then FAILED and
\* return if the repository is gone, else the task waits for run_analysis
process_analysis_start(analysis_id) ==
    /\ analysis_pc[analysis_id] = "scheduled"
    /\ IF analyses_db[analysis_id].repository_id \notin DOMAIN repositories_db
       THEN /\ analyses_db' = [analyses_db EXCEPT ![analysis_id].status = "failed"]
            /\ analysis_pc' = [analysis_pc EXCEPT ![analysis_id] = "done"]
       ELSE /\ analyses_db' = [analyses_db EXCEPT ![analysis_id].status = "in_progress"]
            /\ analysis_pc' = [analysis_pc EXCEPT ![analysis_id] = "run_analysis"]
    /\ UNCHANGED <<repositories_db, reports_db, repo_pc, deleted>>
    /\ UNCHANGED <<dedup_vars, cx_vars, smell_vars, fanout_vars, guide_vars>>

\* core.code_analysis.run_analysis is imported by the endpoint module but is
\* defined nowhere in the repository.  All that is known of its result is
\* its type, models.analysis.Analysis, whose status field is any
\* AnalysisStatus (PENDING when the constructor is not given one).
run_analysis == AnalysisStatus

\* run_analysis returns: the record is replaced by the dict of the result
\* (which has no report_id key), and the task waits for generate_report
process_analysis_store(analysis_id) ==
    /\ analysis_pc[analysis_id] = "run_analysis"
    /\ \E s \in run_analysis :
        analyses_db' = [analyses_db EXCEPT ![analysis_id] =
                            [repository_id |-> @.repository_id, status |-> s, report_id |-> 0]]
    /\ analysis_pc' = [analysis_pc EXCEPT ![analysis_id] = "generate_report"]
    /\ UNCHANGED <<repositories_db, reports_db, repo_pc, deleted>>
    /\ UNCHANGED <<dedup_vars, cx_vars, smell_vars, fanout_vars, guide_vars>>

\* generate_report returns: the report is stored under a fresh id (the id of
\* the analysis stands for it), then linked, then the status is COMPLETED
process_analysis_link(analysis_id) ==
    /\ analysis_pc[analysis_id] = "generate_report"
    /\ reports_db' = reports_db \cup {analysis_id}
    /\ analyses_db' = [analyses_db EXCEPT ![analysis_id].report_id = analysis_id,
                                          ![analysis_id].status = "completed"]
    /\ analysis_pc' = [analysis_pc EXCEPT ![analysis_id] = "done"]
    /\ UNCHANGED <<repositories_db, repo_pc, deleted>>
    /\ UNCHANGED <<dedup_vars, cx_vars, smell_vars, fanout_vars, guide_vars>>

\* run_analysis or generate_report raises: the handler marks the record
\* FAILED (no endpoint removes an analysis, so the id is still a key)
process_analysis_except(analysis_id) ==
    /\ analysis_pc[analysis_id] \in {"run_analysis", "generate_report"}
    /\ analyses_db' = IF analysis_id \in DOMAIN analyses_db
                      THEN [analyses_db EXCEPT ![analysis_id].status = "failed"]
                      ELSE analyses_db
    /\ analysis_pc' = [analysis_pc EXCEPT ![analysis_id] = "done"]
    /\ UNCHANGED <<repositories_db, reports_db, repo_pc, deleted>>
    /\ UNCHANGED <<dedup_vars, cx_vars, smell_vars, fanout_vars, guide_vars>>

ApiNext ==
    \/ create_repository
    \/ \E r \in RepoIds : process_repository(r)
    \/ \E r \in RepoIds : delete_repository(r)
    \/ \E r \in RepoIds : create_analysis(r)
    \/ \E a \in AnalysisIds : process_analysis_start(a)
    \/ \E a \in AnalysisIds : process_analysis_store(a)
    \/ \E a \in AnalysisIds : process_analysis_link(a)
    \/ \E a \in AnalysisIds : process_analysis_except(a)

SpecApi == ApiInit /\ [][ApiNext]_vars

StatusRank(s) == CASE s = "pending" -> 0 [] s = "in_progress" -> 1 [] OTHER -> 2

StatusMovesForward(old, new) ==
    /\ StatusRank(old) <= StatusRank(new)
    /\ old \in {"completed", "failed"} => new = old

SpecFanoutFair == FanoutInit /\ [][FanoutNext]_vars /\ WF_vars(FanoutNext)

MaxSuggestions == 2

Techniques == {"Extract Method", "Inline Method"}
SmellTypes == {"long_method", "dead_code"}
\* smell.get("lines", ""): the empty text when the smell names no lines
AffectedAreas == {"", "10-20"}
Severities == {"high", "medium", "low"}

Suggestion ==
    [technique : Techniques, smell_type : SmellTypes, affected_area : AffectedAreas,
     severity : Severities, related_refactorings : {{}, {"Extract Method"}}]

SuggestionLists == SeqsUpTo(Suggestion, MaxSuggestions)

Indices(all_suggestions) == [i \in 1..Len(all_suggestions) |-> i]

\* [s for s in suggestions if s.get("severity") == severity], each suggestion
\* given by its place in the list (the code tells suggestions apart by
\* identity, not by value)
WithSeverity(all_suggestions, severity) ==
    SelectSeq(Indices(all_suggestions), LAMBDA i : all_suggestions[i].severity = severity)

\* The three tests of the loop of _find_related_step_numbers.
IsRelated(suggestion, current_suggestion) ==
    \/ suggestion.technique \in current_suggestion.related_refactorings
    \/ /\ suggestion.affected_area = current_suggestion.affected_area
       /\ suggestion.affected_area # ""
    \/ suggestion.smell_type = current_suggestion.smell_type

\* _find_related_step_numbers: i runs over enumerate(all_suggestions, 1), the
\* places of the list that was passed in
find_related_step_numbers(current, all_suggestions) ==
    SelectSeq(Indices(all_suggestions),
              LAMBDA i : i # current /\ IsRelated(all_suggestions[i], all_suggestions[current]))

\* One of the three loops: enumerate(priority_list, start)
StepsOf(priority_list, start, priority, all_suggestions) ==
    [k \in 1..Len(priority_list) |->
        [step |-> start + k - 1,
         priority |-> priority,
         affected_area |-> all_suggestions[priority_list[k]].affected_area,
         related_steps |-> find_related_step_numbers(priority_list[k], all_suggestions)]]

\* refactoring_steps; the empty list for no suggestions
RefactoringSteps(all_suggestions) ==
    LET high_priority == WithSeverity(all_suggestions, "high")
        medium_priority == WithSeverity(all_suggestions, "medium")
        low_priority == WithSeverity(all_suggestions, "low")
    IN  StepsOf(high_priority, 1, "high", all_suggestions)
        \o StepsOf(medium_priority, Len(high_priority) + 1, "medium", all_suggestions)
        \o StepsOf(low_priority, Len(high_priority) + Len(medium_priority) + 1, "low", all_suggestions)

GuideInit ==
    /\ suggestions \in SuggestionLists
    /\ guide_pc = "called"
    /\ guide = <<>>
    /\ DedupIdle
    /\ CxIdle
    /\ SmellIdle
    /\ FanoutIdle
    /\ ApiIdle

generate_refactoring_guide ==
    /\ guide_pc = "called"
    /\ guide' = RefactoringSteps(suggestions)
    /\ guide_pc' = "done"
    /\ UNCHANGED <<suggestions, dedup_vars, cx_vars, smell_vars, fanout_vars, api_vars>>

GuideNext == generate_refactoring_guide

SpecGuide == GuideInit /\ [][GuideNext]_vars

\* The suggestion behind each step of the guide: high, then medium, then low,
\* each in the order of the input.
SuggestionOfStep ==
    WithSeverity(suggestions, "high") \o WithSeverity(suggestions, "medium")
        \o WithSeverity(suggestions, "low")

PriorityRank(p) == CASE p = "high" -> 1 [] p = "medium" -> 2 [] OTHER -> 3

\* Steps are numbered 1, 2, ... with high before medium before low.
StepsNumberedByPriority ==
    /\ Len(guide) = Len(suggestions)
    /\ \A k \in 1..Len(guide) :
          /\ guide[k].step = k
          /\ guide[k].priority = suggestions[SuggestionOfStep[k]].severity
    /\ \A j, k \in 1..Len(guide) :
          j < k => PriorityRank(guide[j].priority) <= PriorityRank(guide[k].priority)

\* C30: in the guide the steps are numbered consecutively from 1, high
\* priority first, then medium, then low, and every number in related_steps
\* of a step is the step number, in the guide, of a different suggestion
\* that is related to the suggestion of the step.
C30_RelatedStepsAreStepsOfGuide ==
    guide_pc = "done" =>
        /\ StepsNumberedByPriority
        /\ \A k \in 1..Len(guide) :
              \A n \in Range(guide[k].related_steps) :
                  /\ n \in 1..Len(guide)
                  /\ n # k
                  /\ IsRelated(suggestions[SuggestionOfStep[n]], suggestions[SuggestionOfStep[k]])

\* On a list that is already in the order of the guide the numbers of
\* related_steps are the step numbers.
C30_HoldsOnOrderedInput ==
    guide_pc = "done" /\ SuggestionOfStep = Indices(suggestions)
        => C30_RelatedStepsAreStepsOfGuide

====
